---------------------------- MODULE Spec2Model ----------------------------
(***************************************************************************)
(* Supplier discovery core of api/utils.py: the candidate source adapter,  *)
(* the domain filter, the bounded concurrent validator and the assembly of *)
(* the supplier list.  URLs are character sequences held in the table Urls *)
(* and referred to in the state by their index; the text operations of the *)
(* code (lower-casing, substring search, urlparse's netloc) are computed   *)
(* on the characters.                                                      *)
(***************************************************************************)
EXTENDS Integers, Sequences, FiniteSets, TLC

(* ------------------------------ bounds -------------------------------- *)
\* longest candidate list a search provider returns in the pipeline runs
MaxCandidates == 2
\* longest list of links handed directly to the bounded validator
MaxLinks == 3
\* largest quota (limit) handed directly to the bounded validator
MaxLimit == 2
\* largest explicit max_workers handed directly to the bounded validator
MaxPool == 2
\* longest URL list given to the domain filter on its own
MaxFilterLen == 3

(* -------------------------- program constants -------------------------- *)
\* min(32, max(4, len(links) or 1))
PoolCeiling == 32
PoolFloor == 4
\* run_threads_and_async: if len(validated_links) >= 15
LegacyLimit == 15
\* search_suppliers_v2: validated_limit per path
QuickLimit == 15
BasicLimit == 20
AdvancedLimit == 25

\* Python's None
NoneVal == 0

(* ------------------------------ strings -------------------------------- *)
UpperCase ==
    [c \in {"A","B","C","D","E","F","G","H","I","J","K","L","M",
            "N","O","P","Q","R","S","T","U","V","W","X","Y","Z"} |->
       CASE c = "A" -> "a" [] c = "B" -> "b" [] c = "C" -> "c" [] c = "D" -> "d"
         [] c = "E" -> "e" [] c = "F" -> "f" [] c = "G" -> "g" [] c = "H" -> "h"
         [] c = "I" -> "i" [] c = "J" -> "j" [] c = "K" -> "k" [] c = "L" -> "l"
         [] c = "M" -> "m" [] c = "N" -> "n" [] c = "O" -> "o" [] c = "P" -> "p"
         [] c = "Q" -> "q" [] c = "R" -> "r" [] c = "S" -> "s" [] c = "T" -> "t"
         [] c = "U" -> "u" [] c = "V" -> "v" [] c = "W" -> "w" [] c = "X" -> "x"
         [] c = "Y" -> "y" [] c = "Z" -> "z"]

\* str.lower()
Lower(s) ==
    [k \in 1..Len(s) |-> IF s[k] \in DOMAIN UpperCase THEN UpperCase[s[k]] ELSE s[k]]

\* p in s
Contains(s, p) ==
    \E k \in 1..(Len(s) - Len(p) + 1) : SubSeq(s, k, k + Len(p) - 1) = p

\* position of the first character of s, at or after position from, that is
\* in the set chars; Len(s) + 1 when there is none
RECURSIVE FirstOf(_, _, _)
FirstOf(s, chars, from) ==
    IF from > Len(s) THEN Len(s) + 1
    ELSE IF s[from] \in chars THEN from
    ELSE FirstOf(s, chars, from + 1)

(* ------------------------------- URLs ---------------------------------- *)
\* the URLs a search provider or the oracle can name in a run
Urls ==
    <<
       <<"h","t","t","p","s",":","/","/","a","c","m","e",".","c","o","m">>,
       <<"h","t","t","p","s",":","/","/","w","w","w",".","a","c","m","e",".","c","o","m","/","s","t","e","e","l">>,
       <<"h","t","t","p","s",":","/","/","b","o","l","t",".","i","o","/","c","o","n","t","a","c","t">>,
       <<"h","t","t","p","s",":","/","/","w","w","w",".","A","l","i","b","a","b","a",".","c","o","m","/","a","c","m","e">>,
       <<"h","t","t","p","s",":","/","/","b","o","l","t",".","i","o","/","p","r","i","c","e","l","i","s","t",".","p","d","f">>
    >>

UrlIds == 1..Len(Urls)

\* urlparse(link).netloc: the text between "//" (after the scheme) and the
\* next "/", "?" or "#"; empty when the URL has no "//" part.
\* urlparse(None).netloc is b"", a value no URL's netloc equals.
SchemeChars ==
    {"a","b","c","d","e","f","g","h","i","j","k","l","m","n","o","p","q","r",
     "s","t","u","v","w","x","y","z","+","-","."} \cup DOMAIN UpperCase
NetlocOfText(s) ==
    LET colon == FirstOf(s, {":"}, 1)
        hasScheme == /\ colon > 1
                     /\ colon <= Len(s)
                     /\ \A k \in 1..(colon - 1) : s[k] \in SchemeChars
        rest == IF hasScheme THEN SubSeq(s, colon + 1, Len(s)) ELSE s
    IN  IF Len(rest) >= 2 /\ rest[1] = "/" /\ rest[2] = "/"
        THEN SubSeq(rest, 3, FirstOf(rest, {"/", "?", "#"}, 3) - 1)
        ELSE << >>
NetlocTable == [u \in UrlIds |-> NetlocOfText(Urls[u])]
EmptyBytes == <<"b''">>
netloc(url) == IF url = NoneVal THEN EmptyBytes ELSE NetlocTable[url]

(* --------------------------- domain filter ----------------------------- *)
exclude_domains ==
    <<
       <<"a","l","i","b","a","b","a">>, <<"i","n","d","i","a","m","a","r","t">>, <<"a","m","a","z","o","n">>,
       <<"m","a","d","e","-","i","n","-","c","h","i","n","a">>,
       <<"g","l","o","b","a","l","s","o","u","r","c","e","s">>, <<"t","r","a","d","e","i","n","d","i","a">>,
       <<"e","c","2","1">>, <<"d","h","g","a","t","e">>, <<"t","r","a","d","e","e","a","s","y">>,
       <<"e","x","p","o","r","t","e","r","s","i","n","d","i","a">>, <<"e","c","p","l","a","z","a">>,
       <<"e","x","p","o","r","t","h","u","b">>, <<"g","l","o","b","a","l","s","o","u","r","c","e","s">>,
       <<"i","n","d","i","a","M","A","R","T">>, <<"i","n","d","i","a","m","a","r","t">>,
       <<"e","k","a","r","t">>, <<"a","m","a","z","o","n">>, <<"w","a","l","m","a","r","t">>,
       <<"e","B","a","y">>, <<"s","h","o","p","i","f","y">>, <<"b","i","g","c","o","m","m","e","r","c","e">>,
       <<"w","o","o","c","o","m","m","e","r","c","e">>, <<"e","t","s","y">>,
       <<"o","v","e","r","s","t","o","c","k">>, <<"n","e","w","e","g","g">>,
       <<"a","l","i","e","x","p","r","e","s","s">>, <<"t","r","a","d","e","k","e","y">>,
       <<"t","r","a","d","e","b","o","s","s">>, <<"h","k","t","d","c">>, <<"k","o","m","p","a","s","s">>,
       <<"y","e","l","l","o","w","p","a","g","e","s">>, <<"z","o","o","m","i","n","f","o">>,
       <<"y","e","l","l","o","w","b","o","o","k">>, <<"y","e","l","l">>,
       <<"m","a","d","e","-","i","n","-","i","n","d","i","a">>,
       <<"m","a","n","u","f","a","c","t","u","r","e","r","s">>,
       <<"s","o","u","r","c","i","n","g","g","u","i","d","e","s">>,
       <<"g","l","o","b","a","l","t","r","a","d","e">>, <<"b","u","s","i","n","e","s","s",".","c","o","m">>,
       <<"c","o","n","n","e","c","t",".","i","n">>, <<"e","x","p","o","r","t","e","r","s",".","s","g">>,
       <<"e","x","p","o","r","t","e","r","s",".","e","u">>,
       <<"s","u","p","p","l","i","e","r","d","i","r","e","c","t","o","r","y">>,
       <<"b","u","s","i","n","e","s","s","d","i","r","e","c","t","o","r","y">>,
       <<"b","2","b","m","a","r","k","e","t","p","l","a","c","e">>,
       <<"b","u","s","i","n","e","s","s","e","x","c","h","a","n","g","e">>,
       <<"g","l","o","b","a","l","b","2","b">>, <<"b","2","b","c","e","n","t","r","a","l">>,
       <<"i","n","d","u","s","t","r","i","a","l","b","2","b">>, <<"b","2","b","f","i","n","d","e","r","s">>,
       <<"b","2","b","c","o","n","n","e","c","t">>, <<"b","2","b","w","o","r","l","d">>,
       <<"b","u","s","i","n","e","s","s","n","e","t","w","o","r","k">>,
       <<"t","r","a","d","e","d","i","r","e","c","t">>, <<"b","i","z","b","2","b">>,
       <<"s","u","p","p","l","y","c","h","a","i","n","b","2","b">>,
       <<"b","2","b","s","o","u","r","c","i","n","g">>, <<"b","2","b","s","u","p","p","l","i","e","r">>,
       <<"b","2","b","s","u","p","p","l","i","e","r","d","i","r","e","c","t","o","r","y">>,
       <<"b","2","b","s","u","p","p","l","i","e","r","s">>,
       <<"b","2","b","m","a","n","u","f","a","c","t","u","r","e","r","s">>,
       <<"b","2","b","t","r","a","d","e","r","s">>, <<"b","2","b","w","h","o","l","e","s","a","l","e">>,
       <<"b","2","b","e","x","p","o","r","t","e","r","s">>,
       <<"b","2","b","i","m","p","o","r","t","e","r","s">>, <<"b","2","b","p","r","o","d","u","c","t","s">>,
       <<"b","2","b","s","e","r","v","i","c","e","s">>, <<"b","2","b","m","a","r","k","e","t">>,
       <<"b","2","b","s","e","a","r","c","h">>, <<"b","2","b","g","a","t","e","w","a","y">>,
       <<"b","2","b","h","u","b">>, <<"b","2","b","p","l","a","t","f","o","r","m">>,
       <<"b","2","b","s","h","o","p">>, <<"b","2","b","d","i","r","e","c","t","o","r","y">>,
       <<"b","2","b","o","n","l","i","n","e">>, <<"b","2","b","p","o","r","t","a","l">>,
       <<"b","2","b","c","o","n","n","e","c","t","o","r","s">>,
       <<"b","2","b","c","o","m","m","e","r","c","e">>, <<"b","2","b","n","e","t","w","o","r","k">>,
       <<"b","2","b","w","o","r","l","d","w","i","d","e">>, <<"b","2","b","z","o","n","e">>,
       <<"b","2","b","c","e","n","t","r","a","l">>,
       <<"b","2","b","i","n","t","e","r","n","a","t","i","o","n","a","l">>,
       <<"b","2","b","m","a","r","k","e","t","p","l","a","c","e">>, <<"b","2","b","s","a","l","e","s">>,
       <<"b","2","b","s","u","p","p","l","i","e","s">>,
       <<"b","2","b","s","u","p","p","l","i","e","r","h","u","b">>,
       <<"b","2","b","t","r","a","d","i","n","g">>,
       <<"b","2","b","p","r","o","d","u","c","t","s","u","p","p","l","y">>,
       <<"b","2","b","v","e","n","d","o","r">>, <<"b","2","b","s","u","p","p","l","y","c","h","a","i","n">>,
       <<"b","2","b","c","o","n","n","e","c","t","o","r","s">>,
       <<"b","2","b","w","h","o","l","e","s","a","l","e","r">>,
       <<"b","2","b","e","x","p","o","r","t","h","u","b">>,
       <<"b","2","b","i","m","p","o","r","t","h","u","b">>, <<"a","c","c","i","o">>,
       <<"p","i","n","t","e","r","e","s","t">>, <<"b","b","c">>, <<"c","n","n">>,
       <<"m","a","g","i","c","p","i","n">>, <<"s","w","i","g","g","y">>, <<"z","o","m","a","t","o">>,
       <<"b","i","g","b","a","z","z","a","r">>, <<"s","u","p","p","l","i","e","r","s",".","c","o","m">>,
       <<"s","u","p","p","l","i","e","r",".","c","o","m">>,
       <<"s","u","p","p","l","i","e","r","h","u","b",".","c","o","m">>, <<"t","a","l","a","b","a","t">>,
       <<"2","4","8","a","m">>, <<"l","i","n","k","e","d","i","n">>, <<"r","e","d","d","i","t">>,
       <<"f","a","c","e","b","o","o","k">>, <<"w","i","k","i","p","e","d","i","a">>,
       <<"f","o","r","b","e","s">>, <<"f","a","i","r","w","i","l","d">>
    >>

exclude_words ==
    <<
       <<"l","i","s","t">>, <<"d","a","t","a">>, <<"d","i","c","t","i","o","n","a","r","y">>,
       <<"w","o","r","d">>, <<"a","s","p","x">>, <<"p","d","f">>, <<"t","x","t">>, <<"d","o","c">>,
       <<"x","l","s">>, <<"v","i","d","e","o">>, <<"i","m","a","g","e">>
    >>

\* any(domain.lower() in url.lower() for domain in exclude_domains)
HitsDomain(text) ==
    \E d \in 1..Len(exclude_domains) : Contains(Lower(text), Lower(exclude_domains[d]))
\* any(word in url.lower() for word in [...])
HitsWord(text) ==
    \E w \in 1..Len(exclude_words) : Contains(Lower(text), exclude_words[w])
DomainHitTable == [u \in UrlIds |-> HitsDomain(Urls[u])]
WordHitTable == [u \in UrlIds |-> HitsWord(Urls[u])]

\* faulty variant: the URLs are removed from the list while it is iterated, so the
\* URL after a removed one is skipped
RECURSIVE RemoveFrom(_, _)
RemoveFrom(urls, k) ==
    IF k > Len(urls) THEN urls
    ELSE IF DomainHitTable[urls[k]] \/ WordHitTable[urls[k]]
         THEN RemoveFrom(SubSeq(urls, 1, k - 1) \o SubSeq(urls, k + 1, Len(urls)), k + 1)
         ELSE RemoveFrom(urls, k + 1)
RemoveWhileIterating(urls) == RemoveFrom(urls, 1)

\* the two list comprehensions of exclude_b2b_websites, in order
exclude_b2b_websites(urls) ==
    LET pass1 == SelectSeq(urls, LAMBDA u : ~DomainHitTable[u])
    IN  SelectSeq(pass1, LAMBDA u : ~WordHitTable[u])

(* ------------------------------- state --------------------------------- *)
VARIABLES
    entry,            \* the function the run entered by
    mode,             \* search_suppliers_v2: "quick", "basic" or "advanced"
    serper_arg,       \* a Serper key is passed as serper_api_key
    serper_env,       \* a Serper key is in the environment or app_secrets
    tavily_client,    \* the tavily package was imported (TavilyClient is not None)
    attempts,         \* the provider calls made so far: <<provider, outcome>>
    candidates,       \* links: the candidate URLs of the search provider
    refiltered,       \* exclude_b2b_websites applied to its own output
    links,            \* the validator's links (filtered_links in the pipeline)
    limit,            \* the quota: limit / validated_limit (15 in run_threads_and_async)
    max_workers,      \* the pool size after the default is applied
    prefetched_texts, \* [given, keys]: the optional dict of pre-fetched texts
    wpc,              \* per submitted task: the position of its future and worker
    result,           \* per task: the worker's result (<< >> is None)
    validated_links,  \* the shared accepted list
    stop_event,       \* the shared cancellation flag
    lock,             \* the mutex: the task holding it, or NoneVal
    mainpc,           \* the position of the calling thread
    yielded,          \* the futures as_completed has handed to the loop
    result_list       \* the list the pipeline returns

\* the contact helpers of utils.py, called on their own
VARIABLES
    phone_raw,        \* the string _clean_visible_number / _digits_only is given
    phone_clean,      \* the results of _clean_visible_number applied repeatedly
    phone_digits      \* the results of _digits_only applied repeatedly

phoneVars == <<phone_raw, phone_clean, phone_digits>>
PhoneIdle ==
    /\ phone_raw = << >>
    /\ phone_clean = << >>
    /\ phone_digits = << >>

\* CertificationDetector._merge_detections
VARIABLES
    detections,       \* the list of detections the merge is given
    merged,           \* the dict merged, in insertion order
    det_next,         \* the index of the detection the loop takes next
    cert_result       \* what _merge_detections returned

certVars == <<detections, merged, det_next, cert_result>>
CertIdle ==
    /\ detections = << >>
    /\ merged = << >>
    /\ det_next = 1
    /\ cert_result = << >>

\* SupplierEvaluationScoring
VARIABLES
    website_data,         \* calculate_score's website_data, the fields it reads
    marketplace_presence, \* its marketplace_presence
    sentiment_data,       \* its sentiment_data
    score_data,           \* what calculate_score returned (<< >> before)
    star_score,           \* the score _calculate_stars is given, in twentieths
    star_rating           \* what _calculate_stars returned (0 before)

scoreVars == <<website_data, marketplace_presence, sentiment_data, score_data,
               star_score, star_rating>>
ScoreIdle ==
    /\ website_data = << >>
    /\ marketplace_presence = << >>
    /\ sentiment_data = << >>
    /\ score_data = << >>
    /\ star_score = 0
    /\ star_rating = 0

\* get_contact_details_smart
VARIABLES
    html_text,        \* the page text the extractor is given
    emails,           \* extract_emails(html_text)
    phone_cands,      \* candidates: extract_candidate_phones(html_text)
    llm_outcome,      \* "not_called", "answered", "empty" or "failed"
    shortlist,        \* the candidates listed in the oracle's prompt
    chosen_phone,     \* the phone chosen so far
    contact_details,  \* the string returned
    contactpc         \* "start", "gathered", "chosen" or "returned"

contactVars == <<html_text, emails, phone_cands, llm_outcome, shortlist, chosen_phone,
                 contact_details, contactpc>>
ContactIdle ==
    /\ html_text = << >>
    /\ emails = << >>
    /\ phone_cands = << >>
    /\ llm_outcome = "not_called"
    /\ shortlist = << >>
    /\ chosen_phone = << >>
    /\ contact_details = << >>
    /\ contactpc = "idle"

\* EnhancedMarketplaceScraper.check_marketplace_presence
VARIABLES
    website_url,      \* the supplier's URL (<< >> is None)
    page_hrefs,       \* the href of every a[href] of the supplier's page
    presence,         \* the presence record being built and returned
    searches,         \* the marketplace-side searches made
    mppc              \* "start", "links" or "returned"

marketVars == <<website_url, page_hrefs, presence, searches, mppc>>
MarketIdle ==
    /\ website_url = << >>
    /\ page_hrefs = << >>
    /\ presence = << >>
    /\ searches = 0
    /\ mppc = "idle"

\* SuplinkDatabase.save_business_analysis under ComprehensiveBusinessAnalyzer.run_analysis
VARIABLES
    suplink_discovered, \* the rows of the table, in insertion order
    unique_website_url, \* whether the table rejects a second row of a website_url
    now,                \* the clock read by datetime.now()
    businesses,         \* per analysis run: the URLs it was given
    progress,           \* per analysis run: how many businesses it has gone through
    runpc,              \* per analysis run: where it stands with the current business
    supabase_record,    \* per analysis run: the row mapped from the analysis
    existing_id,        \* per analysis run: the id the select returned, 0 for no row
    success             \* per analysis run: what each save returned, in order

dbVars == <<suplink_discovered, unique_website_url, now, businesses, progress,
            runpc, supabase_record, existing_id, success>>
DbIdle ==
    /\ suplink_discovered = << >>
    /\ unique_website_url = FALSE
    /\ now = 0
    /\ businesses = << >>
    /\ progress = << >>
    /\ runpc = << >>
    /\ supabase_record = << >>
    /\ existing_id = << >>
    /\ success = << >>

\* CertificationDetector.detect_from_text
VARIABLES
    text_lower,       \* the text, by what it matches in the knowledge base
    detected,         \* the detections, in the order they were entered
    detectpc          \* "start" or "returned"

detectVars == <<text_lower, detected, detectpc>>
DetectIdle ==
    /\ text_lower = << >>
    /\ detected = << >>
    /\ detectpc = "idle"

\* ComprehensiveBusinessAnalyzer.analyze_business
VARIABLES
    business,         \* the discovery record analyze_business is given
    analysis,         \* what analyze_business returned (<< >> before)
    saved_data,       \* the row save_business_analysis wrote (<< >> before)
    analysispc        \* "start", "completed", "failed", "saved", "save_failed"

analysisVars == <<business, analysis, saved_data, analysispc>>
AnalysisIdle ==
    /\ business = << >>
    /\ analysis = << >>
    /\ saved_data = << >>
    /\ analysispc = "idle"

svcVars == <<phoneVars, certVars, scoreVars, contactVars, marketVars, dbVars, detectVars,
             analysisVars>>
ServicesIdle ==
    /\ PhoneIdle
    /\ CertIdle
    /\ ScoreIdle
    /\ ContactIdle
    /\ MarketIdle
    /\ DbIdle
    /\ DetectIdle
    /\ AnalysisIdle

adapterVars == <<mode, serper_arg, serper_env, tavily_client, attempts>>
pipelineVars == <<adapterVars, refiltered, entry, candidates, links, limit,
                  max_workers, prefetched_texts, wpc, result, validated_links,
                  stop_event, lock, mainpc, yielded, result_list>>
vars == <<svcVars, pipelineVars>>

Tasks == 1..Len(links)
Range(s) == {s[k] : k \in 1..Len(s)}

\* all sequences over S of length at most n
SeqsUpTo(S, n) == UNION {[1..k -> S] : k \in 0..n}

(* ------------------------ bounded validator ---------------------------- *)
\* max_workers = min(32, max(4, len(links) or 1))
Max(a, b) == IF a >= b THEN a ELSE b
Min(a, b) == IF a <= b THEN a ELSE b
DefaultWorkers(n) == Min(PoolCeiling, Max(PoolFloor, IF n = 0 THEN 1 ELSE n))

\* the validate functions' return values: None, (None, None), (url, contact);
\* the contact details are those of the page of the link validated
NoneResult == << >>
NonePair == <<NoneVal, NoneVal>>
Accepted(url, link) == <<url, link>>
\* faulty variant: only a result with a url counts
TruthyWithUrl(r) == Len(r) > 0 /\ r[1] # NoneVal
\* if result:
Truthy(r) == Len(r) > 0

\* faulty variant: the flag is set one entry late
QuotaPassed(n, q) == n > q
\* len(validated_links) >= limit
QuotaReached(n, q) == n >= q

\* the futures a pool thread is running
Running == {"check", "validate", "lock", "held"}
Active == Cardinality({j \in Tasks : wpc[j] \in Running})
PendingBefore(i) == Cardinality({j \in Tasks : j < i /\ wpc[j] = "pending"})
\* faulty variant: the pool runs one thread too many
ThreadFreeLoose(i) == PendingBefore(i) + Active <= max_workers
\* ThreadPoolExecutor: at most max_workers threads, each taking the work
\* items in submission order and running one at a time
ThreadFree(i) == PendingBefore(i) + Active + 1 <= max_workers

\* _WorkItem.run: future.set_running_or_notify_cancel()
Start(i) ==
    /\ wpc[i] = "pending"
    /\ ThreadFree(i)
    /\ wpc' = [wpc EXCEPT ![i] = "check"]
    /\ UNCHANGED <<adapterVars, refiltered, svcVars, entry, candidates, links, limit, max_workers, prefetched_texts,
                   result, validated_links, stop_event, lock, mainpc, yielded,
                   result_list>>

\* faulty variant: the worker does not look at the flag
FlagIgnored == FALSE
\* stop_event.is_set()
FlagIsSet == stop_event

\* worker: if stop_event.is_set(): return None
CheckFlag(i) ==
    /\ wpc[i] = "check"
    /\ wpc' = [wpc EXCEPT ![i] = IF FlagIsSet THEN "finished" ELSE "validate"]
    /\ UNCHANGED <<adapterVars, refiltered, svcVars, entry, candidates, links, limit, max_workers, prefetched_texts,
                   result, validated_links, stop_event, lock, mainpc, yielded,
                   result_list>>

\* prefetched_texts is not None and link in prefetched_texts
UsesPrefetched(i) == prefetched_texts.given /\ links[i] \in prefetched_texts.keys

\* the worker's steps after the validate function returned r
Returned(i, r) ==
    /\ wpc' = [wpc EXCEPT ![i] = IF Truthy(r) THEN "lock" ELSE "finished"]
    /\ result' = [result EXCEPT ![i] = r]
    /\ UNCHANGED <<adapterVars, refiltered, svcVars, entry, candidates, links, limit, max_workers, prefetched_texts,
                   validated_links, stop_event, lock, mainpc, yielded, result_list>>

\* validate_link: get_html_sync gives no text
ValidateUnfetchable(i) ==
    /\ wpc[i] = "validate"
    /\ ~UsesPrefetched(i)
    /\ Returned(i, NoneResult)

\* the oracle answers "link: None"
ValidateRejected(i) ==
    /\ wpc[i] = "validate"
    /\ Returned(i, NoneResult)

\* the URLs the oracle may name after "link:" for the page of link
OracleNames(link) == {link} \cup {2}

\* the oracle answers "link: <text>": the text is taken as the url
ValidateAccepted(i) ==
    /\ wpc[i] = "validate"
    /\ \E u \in OracleNames(links[i]) : Returned(i, Accepted(u, links[i]))

\* the oracle's answer holds no "link:"
ValidateMalformed(i) ==
    /\ wpc[i] = "validate"
    /\ Returned(i, NonePair)

\* the oracle call raises inside validate_link
ValidateOracleError(i) ==
    /\ wpc[i] = "validate"
    /\ Returned(i, NonePair)

\* a validate_link_func handed in by the caller raises: the future holds the
\* exception (validate_link and validate_link_from_text catch their own)
ValidateRaises(i) ==
    /\ wpc[i] = "validate"
    /\ entry = "run_threads_and_async_with_limit"
    /\ wpc' = [wpc EXCEPT ![i] = "failed"]
    /\ UNCHANGED <<adapterVars, refiltered, svcVars, entry, candidates, links, limit, max_workers, prefetched_texts,
                   result, validated_links, stop_event, lock, mainpc, yielded,
                   result_list>>

\* with lock: validated_links.append(result)
AcquireAppend(i) ==
    /\ wpc[i] = "lock"
    /\ lock = NoneVal
    /\ lock' = i
    /\ validated_links' = Append(validated_links, result[i])
    /\ wpc' = [wpc EXCEPT ![i] = "held"]
    /\ UNCHANGED <<adapterVars, refiltered, svcVars, entry, candidates, links, limit, max_workers, prefetched_texts,
                   result, stop_event, mainpc, yielded, result_list>>

\* if len(validated_links) >= limit: stop_event.set(); the lock is released
\* and the worker returns
SetFlagRelease(i) ==
    /\ wpc[i] = "held"
    /\ lock = i
    /\ stop_event' = (stop_event \/ QuotaReached(Len(validated_links), limit))
    /\ lock' = NoneVal
    /\ wpc' = [wpc EXCEPT ![i] = "finished"]
    /\ UNCHANGED <<adapterVars, refiltered, svcVars, entry, candidates, links, limit, max_workers, prefetched_texts,
                   result, validated_links, mainpc, yielded, result_list>>

\* faulty variant: a future that raised is never handed over
DoneWithResult(i) == wpc[i] \in {"finished", "cancelled"}
\* as_completed hands over the futures that finished, raised or were cancelled
Done(i) == wpc[i] \in {"finished", "failed", "cancelled"}

\* finally: f.cancel() for every future not done, executor.shutdown(wait=False,
\* cancel_futures=True): the pending futures are cancelled, the running ones
\* are left to run
CancelPending == [i \in Tasks |-> IF wpc[i] = "pending" THEN "cancelled" ELSE wpc[i]]

\* for future in as_completed(futures): the loop takes a done future
\*   if stop_event.is_set(): break
LoopBreak(i) ==
    /\ mainpc = "iter"
    /\ i \notin yielded /\ Done(i)
    /\ stop_event
    /\ wpc' = CancelPending
    /\ mainpc' = "returned"
    /\ UNCHANGED <<adapterVars, refiltered, svcVars, entry, candidates, links, limit, max_workers, prefetched_texts,
                   result, validated_links, stop_event, lock, yielded, result_list>>

\*   future.result() raises the worker's exception: except logs it, then finally
LoopRaise(i) ==
    /\ mainpc = "iter"
    /\ i \notin yielded /\ Done(i)
    /\ ~stop_event
    /\ wpc[i] = "failed"
    /\ wpc' = CancelPending
    /\ mainpc' = "returned"
    /\ UNCHANGED <<adapterVars, refiltered, svcVars, entry, candidates, links, limit, max_workers, prefetched_texts,
                   result, validated_links, stop_event, lock, yielded, result_list>>

\*   future.result() returns: the loop goes on
LoopNext(i) ==
    /\ mainpc = "iter"
    /\ i \notin yielded /\ Done(i)
    /\ ~stop_event
    /\ wpc[i] # "failed"
    /\ yielded' = yielded \cup {i}
    /\ UNCHANGED <<adapterVars, refiltered, svcVars, entry, candidates, links, limit, max_workers, prefetched_texts,
                   wpc, result, validated_links, stop_event, lock, mainpc,
                   result_list>>

\* as_completed is exhausted: every future was handed over
LoopEnd ==
    /\ mainpc = "iter"
    /\ yielded = Tasks
    /\ wpc' = CancelPending
    /\ mainpc' = "returned"
    /\ UNCHANGED <<adapterVars, refiltered, svcVars, entry, candidates, links, limit, max_workers, prefetched_texts,
                   result, validated_links, stop_event, lock, yielded, result_list>>

(* ----------------------------- pipeline -------------------------------- *)
\* remove_repeating_links: the first entry of every netloc, in list order
RECURSIVE UniqueFrom(_, _, _)
UniqueFrom(entries, k, seen_domains) ==
    IF k > Len(entries) THEN << >>
    ELSE LET domain == netloc(entries[k][1])
         IN  IF domain \notin seen_domains
             THEN <<entries[k]>> \o UniqueFrom(entries, k + 1, seen_domains \cup {domain})
             ELSE UniqueFrom(entries, k + 1, seen_domains)
remove_repeating_links(entries) == UniqueFrom(entries, 1, {})

\* faulty variant: the result loop keeps the entries whose url is None
SkipsNothing(e) == FALSE
\* for url, contact_details in validated_links: if url is None: continue
SkipsEntry(e) == e[1] = NoneVal
\* result_list.append({"name", "url", "email", "phone"}): name is derived from
\* the url, email and phone from the contact details
SupplierRecord(e) == [url |-> e[1], contact |-> e[2]]
RECURSIVE BuildFrom(_, _)
BuildFrom(entries, k) ==
    IF k > Len(entries) THEN << >>
    ELSE IF SkipsEntry(entries[k]) THEN BuildFrom(entries, k + 1)
    ELSE <<SupplierRecord(entries[k])>> \o BuildFrom(entries, k + 1)
BuildResults(entries) == BuildFrom(entries, 1)

NoPrefetch == [given |-> FALSE, keys |-> {}]
Prefetched(K) == [given |-> TRUE, keys |-> K]

\* executor.submit(worker, link) for link in links
Submitted(ls) == [i \in 1..Len(ls) |-> "pending"]
NoResults(ls) == [i \in 1..Len(ls) |-> NoneResult]

\* search_suppliers up to the call of run_threads_and_async
LegacyFilterSubmit ==
    /\ mainpc = "search"
    /\ entry = "search_suppliers"
    /\ links' = exclude_b2b_websites(candidates)
    /\ prefetched_texts' = NoPrefetch
    /\ max_workers' = DefaultWorkers(Len(links'))
    /\ wpc' = Submitted(links')
    /\ result' = NoResults(links')
    /\ mainpc' = "iter"
    /\ UNCHANGED <<adapterVars, refiltered, svcVars, entry, candidates, limit, validated_links, stop_event, lock,
                   yielded, result_list>>

\* search_suppliers_v2 from the filter to the call of
\* run_threads_and_async_with_limit: prefetch_html_texts keeps the links
\* whose fetch gave a text
V2FilterSubmit ==
    /\ mainpc = "search"
    /\ entry = "search_suppliers_v2"
    /\ links' = exclude_b2b_websites(candidates)
    /\ \E K \in SUBSET Range(links') : prefetched_texts' = Prefetched(K)
    /\ max_workers' = DefaultWorkers(Len(links'))
    /\ wpc' = Submitted(links')
    /\ result' = NoResults(links')
    /\ mainpc' = "iter"
    /\ UNCHANGED <<adapterVars, refiltered, svcVars, entry, candidates, limit, validated_links, stop_event, lock,
                   yielded, result_list>>

\* after the validator returned: remove_repeating_links and the result loop
Assemble ==
    /\ mainpc = "returned"
    /\ entry \in {"search_suppliers", "search_suppliers_v2"}
    /\ result_list' = BuildResults(remove_repeating_links(validated_links))
    /\ mainpc' = "done"
    /\ UNCHANGED <<adapterVars, refiltered, svcVars, entry, candidates, links, limit, max_workers, prefetched_texts,
                   wpc, result, validated_links, stop_event, lock, yielded>>

(* ---------------------- candidate source adapter ----------------------- *)
\* resolve_serper_key(passed): passed or env or app_secrets
resolve_serper_key(passed) == passed \/ serper_env
\* resolve_tavily_key: ... or HARDCODED_TAVILY_API_KEY, which is set
resolve_tavily_key(passed) == TRUE

\* the lists a provider can answer with; the empty list is also what search()
\* returns for a failed request or a non-200 status
ProviderAnswers == SeqsUpTo(UrlIds, MaxCandidates)
Outcome(out) == IF out = << >> THEN "empty" ELSE "links"

\* search(product_name, 1, region, key) with a key
SerperCall(out) ==
    /\ candidates' = out
    /\ attempts' = Append(attempts, <<"serper", Outcome(out)>>)
\* ... if fallback_serper else []
SerperSkipped ==
    /\ candidates' = << >>
    /\ attempts' = Append(attempts, <<"serper", "unconfigured">>)

\* mode == "quick" with a Serper key: links = search(...); validated_limit = 15
QuickSerper ==
    /\ mainpc = "source"
    /\ mode = "quick"
    /\ resolve_serper_key(serper_arg)
    /\ \E out \in ProviderAnswers : SerperCall(out)
    /\ limit' = QuickLimit
    /\ mainpc' = "safety"
    /\ UNCHANGED <<mode, serper_arg, serper_env, tavily_client, refiltered, svcVars, entry,
                   links, max_workers, prefetched_texts, wpc, result,
                   validated_links, stop_event, lock, yielded, result_list>>

\* mode == "quick" without a Serper key: tavily_search_links(depth="basic");
\* validated_limit = 20
QuickNoSerperKey ==
    /\ mainpc = "source"
    /\ mode = "quick"
    /\ ~resolve_serper_key(serper_arg)
    /\ attempts' = Append(attempts, <<"serper", "unconfigured">>)
    /\ limit' = BasicLimit
    /\ mainpc' = "tavily"
    /\ UNCHANGED <<mode, serper_arg, serper_env, tavily_client, refiltered, svcVars, entry,
                   candidates, links, max_workers, prefetched_texts, wpc, result,
                   validated_links, stop_event, lock, yielded, result_list>>

\* the other modes: tavily_search_links(depth); validated_limit = 20 or 25
TavilyMode ==
    /\ mainpc = "source"
    /\ mode # "quick"
    /\ limit' = IF mode = "advanced" THEN AdvancedLimit ELSE BasicLimit
    /\ mainpc' = "tavily"
    /\ UNCHANGED <<adapterVars, refiltered, svcVars, entry, candidates, links, max_workers,
                   prefetched_texts, wpc, result, validated_links, stop_event,
                   lock, yielded, result_list>>

\* tavily_search_links: TavilyClient is None or no key
TavilyUnavailable ==
    /\ mainpc = "tavily"
    /\ ~(tavily_client /\ resolve_tavily_key(FALSE))
    /\ attempts' = Append(attempts, <<"tavily", "unconfigured">>)
    /\ mainpc' = "tavily_fallback"
    /\ UNCHANGED <<mode, serper_arg, serper_env, tavily_client, refiltered, svcVars, entry,
                   candidates, links, limit, max_workers, prefetched_texts, wpc,
                   result, validated_links, stop_event, lock, yielded, result_list>>

\* tavily_search_links: client.search(...); no links or an exception falls
\* back to Serper
TavilyCall ==
    /\ mainpc = "tavily"
    /\ tavily_client /\ resolve_tavily_key(FALSE)
    /\ \E out \in ProviderAnswers :
          /\ attempts' = Append(attempts, <<"tavily", Outcome(out)>>)
          /\ candidates' = out
          /\ mainpc' = IF out = << >> THEN "tavily_fallback" ELSE "safety"
    /\ UNCHANGED <<mode, serper_arg, serper_env, tavily_client, refiltered, svcVars, entry,
                   links, limit, max_workers, prefetched_texts, wpc, result,
                   validated_links, stop_event, lock, yielded, result_list>>

\* tavily_search_links: fallback_serper = resolve_serper_key(None);
\* return search(...) if fallback_serper else []
TavilyFallback ==
    /\ mainpc = "tavily_fallback"
    /\ IF resolve_serper_key(FALSE)
       THEN \E out \in ProviderAnswers : SerperCall(out)
       ELSE SerperSkipped
    /\ mainpc' = "safety"
    /\ UNCHANGED <<mode, serper_arg, serper_env, tavily_client, refiltered, svcVars, entry,
                   links, limit, max_workers, prefetched_texts, wpc, result,
                   validated_links, stop_event, lock, yielded, result_list>>

\* if not links: the safety fallback calls Serper with the key passed in
SafetyFallback ==
    /\ mainpc = "safety"
    /\ candidates = << >>
    /\ IF resolve_serper_key(serper_arg)
       THEN \E out \in ProviderAnswers : SerperCall(out)
       ELSE UNCHANGED <<candidates, attempts>>
    /\ limit' = IF mode # "quick" THEN Max(BasicLimit, limit) ELSE limit
    /\ mainpc' = "search"
    /\ UNCHANGED <<mode, serper_arg, serper_env, tavily_client, refiltered, svcVars, entry,
                   links, max_workers, prefetched_texts, wpc, result,
                   validated_links, stop_event, lock, yielded, result_list>>

\* links is not empty: on to the filter
CandidatesFound ==
    /\ mainpc = "safety"
    /\ candidates # << >>
    /\ mainpc' = "search"
    /\ UNCHANGED <<adapterVars, refiltered, svcVars, entry, candidates, links, limit,
                   max_workers, prefetched_texts, wpc, result, validated_links,
                   stop_event, lock, yielded, result_list>>

(* ----------------------- the filter on its own ------------------------- *)
FilterOnce ==
    /\ mainpc = "filter"
    /\ links' = exclude_b2b_websites(candidates)
    /\ mainpc' = "filtered"
    /\ UNCHANGED <<adapterVars, refiltered, svcVars, entry, candidates, limit, max_workers,
                   prefetched_texts, wpc, result, validated_links, stop_event,
                   lock, yielded, result_list>>

FilterAgain ==
    /\ mainpc = "filtered"
    /\ refiltered' = exclude_b2b_websites(links)
    /\ mainpc' = "refiltered"
    /\ UNCHANGED <<adapterVars, svcVars, entry, candidates, links, limit, max_workers,
                   prefetched_texts, wpc, result, validated_links, stop_event,
                   lock, yielded, result_list>>

(* --------------------------- specification ----------------------------- *)
\* the variables of the candidate source adapter and of the filter run on its
\* own, in the runs that do not use them
AdapterIdle ==
    /\ mode = "quick"
    /\ serper_arg = FALSE
    /\ serper_env = FALSE
    /\ tavily_client = FALSE
    /\ attempts = << >>
    /\ refiltered = << >>

\* no pipeline run: the state of a call of one of the helpers on its own
PipelineIdle ==
    /\ AdapterIdle
    /\ candidates = << >>
    /\ links = << >>
    /\ limit = 0
    /\ max_workers = 0
    /\ prefetched_texts = NoPrefetch
    /\ wpc = << >>
    /\ result = << >>
    /\ validated_links = << >>
    /\ stop_event = FALSE
    /\ lock = NoneVal
    /\ mainpc = "idle"
    /\ yielded = {}
    /\ result_list = << >>

\* a direct call of run_threads_and_async_with_limit, its futures submitted
InitValidator ==
    /\ ServicesIdle
    /\ AdapterIdle
    /\ entry = "run_threads_and_async_with_limit"
    /\ candidates = << >>
    /\ \E n \in 0..MaxLinks : links = [i \in 1..n |-> i]
    /\ limit \in 1..MaxLimit
    /\ \E mw \in 0..MaxPool :
          max_workers = IF mw = 0 THEN DefaultWorkers(Len(links)) ELSE mw
    /\ prefetched_texts = NoPrefetch
    /\ wpc = Submitted(links)
    /\ result = NoResults(links)
    /\ validated_links = << >>
    /\ stop_event = FALSE
    /\ lock = NoneVal
    /\ mainpc = "iter"
    /\ yielded = {}
    /\ result_list = << >>

\* search_suppliers / search_suppliers_v2 with the provider's candidates in
InitPipeline ==
    /\ ServicesIdle
    /\ AdapterIdle
    /\ entry \in {"search_suppliers", "search_suppliers_v2"}
    /\ candidates \in SeqsUpTo(UrlIds, MaxCandidates)
    /\ links = << >>
    /\ limit \in IF entry = "search_suppliers" THEN {LegacyLimit}
                 ELSE {QuickLimit, BasicLimit, AdvancedLimit}
    /\ max_workers = 0
    /\ prefetched_texts = NoPrefetch
    /\ wpc = << >>
    /\ result = << >>
    /\ validated_links = << >>
    /\ stop_event = FALSE
    /\ lock = NoneVal
    /\ mainpc = "search"
    /\ yielded = {}
    /\ result_list = << >>

Init == InitValidator \/ InitPipeline

Worker(i) ==
    \/ Start(i)
    \/ CheckFlag(i)
    \/ ValidateUnfetchable(i)
    \/ ValidateRejected(i)
    \/ ValidateAccepted(i)
    \/ ValidateMalformed(i)
    \/ ValidateOracleError(i)
    \/ ValidateRaises(i)
    \/ AcquireAppend(i)
    \/ SetFlagRelease(i)

Main ==
    \/ LegacyFilterSubmit
    \/ V2FilterSubmit
    \/ \E i \in Tasks : LoopBreak(i) \/ LoopRaise(i) \/ LoopNext(i)
    \/ LoopEnd
    \/ Assemble

Next == Main \/ \E i \in Tasks : Worker(i)

Spec == Init /\ [][Next]_vars

\* a direct call of the validator alone: the completion loop and the pool
Loop == (\E i \in Tasks : LoopBreak(i) \/ LoopRaise(i) \/ LoopNext(i)) \/ LoopEnd
PoolThread(i) == i \in Tasks /\ Worker(i)
NextValidator == Loop \/ \E i \in Tasks : Worker(i)
\* the caller's thread runs, and every future of the pool gets a thread that runs
\* it to its end: every validate call terminates
SpecValidatorFair ==
    /\ InitValidator
    /\ [][NextValidator]_vars
    /\ WF_vars(Loop)
    /\ \A i \in 1..MaxLinks : WF_vars(PoolThread(i))

\* search_suppliers_v2 entered: the candidate source adapter
InitSource ==
    /\ ServicesIdle
    /\ entry = "search_suppliers_v2"
    /\ mode \in {"quick", "basic", "advanced"}
    /\ serper_arg \in BOOLEAN
    /\ serper_env \in BOOLEAN
    /\ tavily_client \in BOOLEAN
    /\ attempts = << >>
    /\ candidates = << >>
    /\ refiltered = << >>
    /\ links = << >>
    /\ limit = 0
    /\ max_workers = 0
    /\ prefetched_texts = NoPrefetch
    /\ wpc = << >>
    /\ result = << >>
    /\ validated_links = << >>
    /\ stop_event = FALSE
    /\ lock = NoneVal
    /\ mainpc = "source"
    /\ yielded = {}
    /\ result_list = << >>

NextSource ==
    \/ QuickSerper
    \/ QuickNoSerperKey
    \/ TavilyMode
    \/ TavilyUnavailable
    \/ TavilyCall
    \/ TavilyFallback
    \/ SafetyFallback
    \/ CandidatesFound

SpecSource == InitSource /\ [][NextSource]_vars

\* exclude_b2b_websites called on a list of URLs
InitFilter ==
    /\ ServicesIdle
    /\ AdapterIdle
    /\ entry = "exclude_b2b_websites"
    /\ candidates \in SeqsUpTo(UrlIds, MaxFilterLen)
    /\ links = << >>
    /\ limit = 0
    /\ max_workers = 0
    /\ prefetched_texts = NoPrefetch
    /\ wpc = << >>
    /\ result = << >>
    /\ validated_links = << >>
    /\ stop_event = FALSE
    /\ lock = NoneVal
    /\ mainpc = "filter"
    /\ yielded = {}
    /\ result_list = << >>

NextFilter == FilterOnce \/ FilterAgain

SpecFilter == InitFilter /\ [][NextFilter]_vars


(* ======================= properties of the claims ====================== *)
\* the registrable domain of a host: its last two labels, lower-cased
\* (every host of Urls is under a one-label public suffix)
DotsOf(h) == {k \in 1..Len(h) : h[k] = "."}
MaxOf(S) == CHOOSE m \in S : \A k \in S : k <= m
RegistrableOfHost(h) ==
    IF Cardinality(DotsOf(h)) < 2 THEN h
    ELSE LET last == MaxOf(DotsOf(h))
             prev == MaxOf(DotsOf(h) \ {last})
         IN  SubSeq(h, prev + 1, Len(h))
RegistrableTable == [u \in UrlIds |-> RegistrableOfHost(Lower(NetlocTable[u]))]
Registrable(u) == RegistrableTable[u]
\* no two positions of the URL list us are on one registrable domain
DistinctDomains(us) ==
    \A a, b \in 1..Len(us) : a # b => Registrable(us[a]) # Registrable(us[b])

InPipeline == entry \in {"search_suppliers", "search_suppliers_v2"}
ValidatorStarted == mainpc \in {"iter", "returned", "done"}

\* C1: the shared accepted list never holds more than limit + max_workers - 1
\* entries, and neither does the list the pipeline returns.
C1_OvershootBound ==
    /\ ValidatorStarted => Len(validated_links) <= limit + max_workers - 1
    /\ mainpc = "done" => Len(result_list) <= limit + max_workers - 1
\* the bound is attained beyond the quota while a URL was left out
C1_Witness ==
    /\ entry = "run_threads_and_async_with_limit"
    /\ stop_event
    /\ max_workers >= 2
    /\ Len(validated_links) = limit + max_workers - 1
    /\ Len(links) > Len(validated_links)

\* every accepting oracle answer of the run names the URL of its own page
EchoFaithful ==
    \A i \in Tasks : (Truthy(result[i]) /\ result[i][1] # NoneVal) => result[i][1] = links[i]

\* C2: the entries of the returned list are pairwise distinct by registrable
\* domain (stated for the runs in which the oracle names each accepted page
\* by its own URL, the answers the prompt asks for).
C2_DistinctByRegistrableDomain ==
    (InPipeline /\ mainpc = "done" /\ EchoFaithful) =>
        DistinctDomains([k \in 1..Len(result_list) |-> result_list[k].url])

\* C3: whenever no worker holds the mutex, the flag is set exactly if the
\* list holds at least limit entries; every append takes the free mutex and
\* every setting of the flag is by the worker holding it.
C3_MutexProtected ==
    /\ [](lock = NoneVal => (stop_event <=> Len(validated_links) >= limit))
    /\ [][/\ validated_links' # validated_links =>
                (lock = NoneVal /\ lock' \in Tasks /\ wpc'[lock'] = "held")
          /\ stop_event' # stop_event =>
                (lock \in Tasks /\ wpc[lock] = "held")]_vars
\* the flag was set and the list grew past the quota afterwards
C3_Witness ==
    /\ lock = NoneVal
    /\ stop_event
    /\ Len(validated_links) > limit

\* C4: a validate function that raised never aborts the pool: no other URL's
\* task is cancelled unless the quota flag has been set.
C4_RaiseNeverAborts ==
    (ValidatorStarted /\ \E i \in Tasks : wpc[i] = "failed") =>
        \A j \in Tasks : wpc[j] = "cancelled" => stop_event

\* C5: an oracle answer of neither shape, or a failed oracle call, adds no
\* entry to the shared list (so it does not count toward the quota) and no
\* entry to the returned list.
C5_FailClosed ==
    /\ \A k \in 1..Len(validated_links) : validated_links[k] # NonePair
    /\ \A k \in 1..Len(result_list) : result_list[k].url # NoneVal

\* C6: with the quota at least the number of candidates and the candidates on
\* pairwise distinct domains, the returned list holds exactly one entry for
\* every URL the classifier accepted (the oracle answered "link: <that URL>")
\* and none for any other URL.
ClassifierAccepted(i) == Truthy(result[i]) /\ result[i][1] = links[i]
EntriesFor(u) == {k \in 1..Len(result_list) : result_list[k].url = u}
NotPastFlagCheck(i) == wpc[i] \in {"pending", "check"}
NeverValidates(i) == wpc'[i] \in {"pending", "check", "finished", "cancelled"}
NoStartAfterReturn ==
    /\ [](mainpc \in {"returned", "done"} => \A i \in Tasks : wpc[i] # "pending")
    /\ [][\A i \in Tasks : wpc[i] = "cancelled" => wpc'[i] = "cancelled"]_vars
C7_NoValidateAfterFlag ==
    /\ [][\A i \in Tasks : (stop_event /\ NotPastFlagCheck(i)) => NeverValidates(i)]_vars
    /\ NoStartAfterReturn
\* C7 as stated: also once the result that fills the quota is appended, only
\* the tasks in flight at that moment can add entries: a task not past its
\* flag check then never reaches the validate function.
C7_AsStated ==
    /\ C7_NoValidateAfterFlag
    /\ [][\A i \in Tasks :
            (Len(validated_links) >= limit /\ NotPastFlagCheck(i)) => NeverValidates(i)]_vars
\* the validator returned on the flag with a task cancelled and one in flight
C7_Witness ==
    /\ stop_event
    /\ mainpc = "returned"
    /\ \E i \in Tasks : wpc[i] = "cancelled"
    /\ \E j \in Tasks : wpc[j] \in {"validate", "lock"}

\* C8: when the mode's own provider gave no links (unconfigured, unreachable
\* or zero results) the other provider, if it is configured, is called, and
\* when every provider failed the adapter hands on the empty list.
OwnProvider == IF mode = "quick" THEN "serper" ELSE "tavily"
OtherProvider == IF mode = "quick" THEN "tavily" ELSE "serper"
OtherConfigured == IF mode = "quick" THEN tavily_client ELSE serper_arg \/ serper_env
Called(p) == \E k \in 1..Len(attempts) : attempts[k][1] = p /\ attempts[k][2] # "unconfigured"
C8_FallbackToOtherProvider ==
    (mainpc = "search" /\ attempts # << >>) =>
        /\ attempts[1][1] = OwnProvider
        /\ (attempts[1][2] # "links" /\ OtherConfigured) => Called(OtherProvider)
        /\ (\A k \in 1..Len(attempts) : attempts[k][2] # "links") => candidates = << >>

\* C9: filtering the filter's output changes nothing, and the output is a
\* subsequence of the input.
RECURSIVE IsSubsequence(_, _)
IsSubsequence(a, b) ==
    IF a = << >> THEN TRUE
    ELSE IF b = << >> THEN FALSE
    ELSE IF Head(a) = Head(b) THEN IsSubsequence(Tail(a), Tail(b))
    ELSE IsSubsequence(a, Tail(b))
C9_FilterIdempotent ==
    /\ mainpc \in {"filtered", "refiltered"} => IsSubsequence(links, candidates)
    /\ mainpc = "refiltered" => refiltered = links
\* the filter dropped a URL and kept one
C9_Witness ==
    /\ mainpc = "refiltered"
    /\ Len(links) > 0
    /\ Len(links) < Len(candidates)

\* C10: the filtered URLs handed to the validator hold at most one URL per
\* registrable domain.
C10_OneUrlPerDomain ==
    (InPipeline /\ ValidatorStarted) => DistinctDomains(links)

(* ------------------- phone canonicalization (utils.py) ------------------ *)
MaxPhoneLen == 4

\* the characters of the strings tried: digits, the plus sign, two kinds of
\* white space, a separator the pattern keeps and a letter it removes
PhoneChars == {"0", "1", "+", " ", "\t", "x"}
DigitChars == {"0", "1", "2", "3", "4", "5", "6", "7", "8", "9"}
SpaceChars == {" ", "\t", "\n", "\r"}
\* [0-9+\s().-]
VisibleChars == DigitChars \cup SpaceChars \cup {"+", "(", ")", ".", "-"}

\* "".join(ch for ch in s if ch.isdigit())
_digits_only(s) == SelectSeq(s, LAMBDA ch : ch \in DigitChars)

\* str.strip()
RECURSIVE LStrip(_)
LStrip(s) ==
    IF s # << >> /\ Head(s) \in SpaceChars THEN LStrip(Tail(s)) ELSE s
RECURSIVE RStrip(_)
RStrip(s) ==
    IF s # << >> /\ s[Len(s)] \in SpaceChars
    THEN RStrip(SubSeq(s, 1, Len(s) - 1)) ELSE s
Strip(s) == RStrip(LStrip(s))

StartsWith00(s) == Len(s) >= 2 /\ s[1] = "0" /\ s[2] = "0"
\* faulty variant: the "00" test on the string as given, not stripped
NormalizeUnstripped(s) ==
    IF StartsWith00(s) THEN <<"+">> \o SubSeq(s, 3, Len(s)) ELSE s
_normalize_00_to_plus(s) ==
    IF StartsWith00(Strip(s))
    THEN <<"+">> \o SubSeq(Strip(s), 3, Len(Strip(s)))
    ELSE Strip(s)

\* re.sub(r"\s+", " ", s): every run of white space becomes one blank
RECURSIVE CollapseSpaces(_)
CollapseSpaces(s) ==
    IF s = << >> THEN << >>
    ELSE IF Head(s) \in SpaceChars
         THEN <<" ">> \o CollapseSpaces(LStrip(s))
         ELSE <<Head(s)>> \o CollapseSpaces(Tail(s))

_clean_visible_number(raw) ==
    Strip(CollapseSpaces(_normalize_00_to_plus(
        SelectSeq(raw, LAMBDA ch : ch \in VisibleChars))))

LastOr(results, first) ==
    IF results = << >> THEN first ELSE results[Len(results)]

\* cleaned = _clean_visible_number(...), of the input and then of its result
CleanNumber ==
    /\ entry = "_clean_visible_number"
    /\ Len(phone_clean) < 2
    /\ phone_clean' =
          Append(phone_clean, _clean_visible_number(LastOr(phone_clean, phone_raw)))
    /\ UNCHANGED <<phone_raw, phone_digits, certVars, scoreVars, contactVars, marketVars, dbVars, detectVars, analysisVars, pipelineVars>>

\* key = _digits_only(...), of the input and then of its result
DigitsOnly ==
    /\ entry = "_clean_visible_number"
    /\ Len(phone_digits) < 2
    /\ phone_digits' =
          Append(phone_digits, _digits_only(LastOr(phone_digits, phone_raw)))
    /\ UNCHANGED <<phone_raw, phone_clean, certVars, scoreVars, contactVars, marketVars, dbVars, detectVars, analysisVars, pipelineVars>>

InitPhone ==
    /\ PipelineIdle
    /\ AnalysisIdle
    /\ DetectIdle
    /\ CertIdle
    /\ ScoreIdle
    /\ ContactIdle
    /\ MarketIdle
    /\ DbIdle
    /\ entry = "_clean_visible_number"
    /\ phone_raw \in SeqsUpTo(PhoneChars, MaxPhoneLen)
    /\ phone_clean = << >>
    /\ phone_digits = << >>

NextPhone == CleanNumber \/ DigitsOnly

SpecPhone == InitPhone /\ [][NextPhone]_vars

\* C11: phone canonicalization is idempotent: _clean_visible_number applied
\* to its own result returns that result (also for a leading "00", repeated
\* zeros and surrounding white space), and so does _digits_only.
C11_CanonIdempotent ==
    /\ Len(phone_clean) = 2 => phone_clean[2] = phone_clean[1]
    /\ Len(phone_digits) = 2 => phone_digits[2] = phone_digits[1]

\* a string with white space before a leading "00" and repeated zeros was
\* cleaned twice and reduced to its digits twice
C11_Witness ==
    /\ Len(phone_clean) = 2
    /\ Len(phone_digits) = 2
    /\ phone_raw = <<" ", "0", "0", "0">>
    /\ phone_clean[1] = <<"+", "0">>
    /\ phone_digits[1] = <<"0", "0", "0">>

(* -------------- certification merging (certification_detector.py) ------- *)
MaxDetections == 4

\* confidences are fractions in lowest terms
RECURSIVE GCD(_, _)
GCD(a, b) == IF b = 0 THEN a ELSE GCD(b, a % b)
Frac(n, d) == [num |-> n \div GCD(n, d), den |-> d \div GCD(n, d)]
LCD(a, b) == (a.den \div GCD(a.den, b.den)) * b.den
OverLCD(a, b) == a.num * (LCD(a, b) \div a.den)
Plus(a, b) == Frac(OverLCD(a, b) + OverLCD(b, a), LCD(a, b))
Minus(a, b) == Frac(OverLCD(a, b) - OverLCD(b, a), LCD(a, b))
Times(a, b) == Frac(a.num * b.num, a.den * b.den)
Leq(a, b) == OverLCD(a, b) <= OverLCD(b, a)
FracMin(a, b) == IF Leq(a, b) THEN a ELSE b
One == Frac(1, 1)
Zero == Frac(0, 1)
BoostRate == Frac(5, 100)

\* the confidences tried: 0, the keyword match 0.6, the exact match 0.95, 1
Confidences == {Zero, Frac(60, 100), Frac(95, 100), One}
CertIds == {"iso_9001", "ce_mark"}
\* detect_from_website_data: the contexts, always strings
Contexts == <<"about_section", "description", "title">>
ContextAt(k) == Contexts[((k - 1) % Len(Contexts)) + 1]

Detection(id, conf, k) ==
    [id |-> id, confidence |-> conf, context |-> <<ContextAt(k)>>, is_list |-> FALSE]

\* faulty variant: the boost does not diminish
BoostFlat(c) == BoostRate
\* boost = 0.05 * (1 - existing['confidence'])
Boost(c) == Times(BoostRate, Minus(One, c))
\* min(1.0, existing['confidence'] + boost)
Boosted(c) == FracMin(One, Plus(c, Boost(c)))

\* the place of cert_id in merged, 0 if it is not a key
PlaceOf(id) ==
    IF \E k \in 1..Len(merged) : merged[k].id = id
    THEN CHOOSE k \in 1..Len(merged) : merged[k].id = id
    ELSE 0

\* existing after the else branch: confidence boosted, the contexts tracked
MergeInto(existing, detection) ==
    [existing EXCEPT !.confidence = Boosted(existing.confidence),
                     !.context = existing.context \o detection.context,
                     !.is_list = TRUE]

\* one iteration of: for detection in detections
MergeDetection ==
    /\ entry = "_merge_detections"
    /\ cert_result = << >>
    /\ det_next <= Len(detections)
    /\ LET detection == detections[det_next]
           at == PlaceOf(detection.id)
       IN  merged' = IF at = 0 THEN Append(merged, detection)
                     ELSE [merged EXCEPT ![at] = MergeInto(merged[at], detection)]
    /\ det_next' = det_next + 1
    /\ UNCHANGED <<detections, cert_result, phoneVars, scoreVars, contactVars, marketVars, dbVars, detectVars, analysisVars, pipelineVars>>

\* return list(merged.values())
MergeReturn ==
    /\ entry = "_merge_detections"
    /\ det_next = Len(detections) + 1
    /\ cert_result = << >>
    /\ merged # << >>
    /\ cert_result' = merged
    /\ UNCHANGED <<detections, merged, det_next, phoneVars, scoreVars, contactVars, marketVars, dbVars, detectVars, analysisVars, pipelineVars>>

InitCert ==
    /\ PipelineIdle
    /\ AnalysisIdle
    /\ DetectIdle
    /\ PhoneIdle
    /\ ScoreIdle
    /\ ContactIdle
    /\ MarketIdle
    /\ DbIdle
    /\ entry = "_merge_detections"
    /\ \E n \in 0..MaxDetections :
         \E ids \in [1..n -> CertIds], confs \in [1..n -> Confidences] :
            detections = [k \in 1..n |-> Detection(ids[k], confs[k], k)]
    /\ merged = << >>
    /\ det_next = 1
    /\ cert_result = << >>

NextCert == MergeDetection \/ MergeReturn

SpecCert == InitCert /\ [][NextCert]_vars

InUnit(c) == Leq(Zero, c) /\ Leq(c, One)
\* the detection the loop is at repeats a certificationId already merged
Repeated == det_next <= Len(detections) /\ PlaceOf(detections[det_next].id) # 0
RepeatedPlace == PlaceOf(detections[det_next].id)

\* C12: merging never takes a confidence out of [0,1], whatever the number
\* of detections, and every repeated detection of a certificationId changes
\* its confidence by exactly 0.05*(1 - confidence) capped at 1.0, so the
\* confidence never decreases across merges.
C12_MergeStaysInUnit ==
    /\ [](\A k \in 1..Len(merged) : InUnit(merged[k].confidence))
    /\ [][Repeated =>
            LET before == merged[RepeatedPlace].confidence
                after == merged'[RepeatedPlace].confidence
            IN  /\ after = FracMin(One, Plus(before,
                                     Times(BoostRate, Minus(One, before))))
                /\ Leq(before, after)]_vars

\* three detections of one certification were merged: two boosts of 0.6
C12_Witness ==
    /\ cert_result # << >>
    /\ Len(detections) >= 3
    /\ Len(cert_result) = 1
    /\ detections[1].confidence = Frac(60, 100)
    /\ cert_result[1].confidence = Frac(639, 1000)

(* ------------- supplier scoring (scoring_supplier_evaluation.py) -------- *)
MaxCerts == 3

\* points are counted in twentieths: 0.25 is 5 and 0.1 is 2
Pts(whole) == 20 * whole
HalfPt == 10
QuarterPt == 5
MaxTotal == 25

Category(points, max_points) == [points |-> points, max_points |-> max_points]

\* website_data.get('company_name'): "" stands for an absent name
_score_supplier_selection(wd) ==
    Category((IF wd.company_name # "" /\ wd.company_name # "Unknown"
              THEN Pts(1) + HalfPt ELSE 0)
             + (IF ~wd.analysis_failed THEN Pts(1) + HalfPt ELSE 0),
             Pts(3))

_score_company_info(wd) ==
    Category((IF wd.company_name # "" THEN Pts(1) ELSE 0)
             + (IF wd.email THEN Pts(1) ELSE 0)
             + (IF wd.phone THEN Pts(1) ELSE 0)
             + (IF wd.location \/ wd.address THEN Pts(1) ELSE 0),
             Pts(4))

\* len(certifications): 0 / 2 / 3 / 4 points for 0 / 1 / 2 / 3 or more
_score_compliance(wd) ==
    Category(IF wd.certifications >= 3 THEN Pts(4)
             ELSE IF wd.certifications = 2 THEN Pts(3)
             ELSE IF wd.certifications = 1 THEN Pts(2)
             ELSE 0,
             Pts(4))

\* sentiment_data.get('sentiment_score', 50) if sentiment_available else 50
SentimentScore(sd) == IF sd.sentiment_available THEN sd.sentiment_score ELSE 50

_score_performance(wd, sd) ==
    LET reputation == IF SentimentScore(sd) >= 80 THEN Pts(4)
                      ELSE IF SentimentScore(sd) >= 60 THEN Pts(2) + HalfPt
                      ELSE IF SentimentScore(sd) >= 40 THEN Pts(1) + HalfPt
                      ELSE 0
        tenure == IF wd.about /\ wd.years_in_business # 0
                  THEN IF wd.years_in_business >= 10 THEN Pts(1)
                       ELSE IF wd.years_in_business >= 5 THEN HalfPt + QuarterPt
                       ELSE 0
                  ELSE HalfPt
    IN  Category(Min(reputation + tenure, Pts(5)), Pts(5))

Verified(mp) == mp.alibaba_verified \/ mp.thomasnet_listed

_score_risk(wd, sd, mp) ==
    LET sentiment == IF SentimentScore(sd) < 30 THEN Pts(2)
                     ELSE IF SentimentScore(sd) < 50 THEN Pts(1)
                     ELSE 0
        unverified == IF Verified(mp) THEN 0 ELSE Pts(1)
        no_ssl == IF ~wd.has_ssl THEN Pts(1) ELSE 0
    IN  Category(Max(0, Pts(4) - sentiment - unverified - no_ssl), Pts(4))

_score_documents(wd) ==
    Category((IF wd.has_downloads THEN Pts(1) ELSE 0)
             + (IF wd.about THEN Pts(1) ELSE 0)
             + (IF wd.recent_dates THEN Pts(1) ELSE 0),
             Pts(3))

_score_engagement(wd, mp) ==
    Category((IF wd.has_social_media THEN HalfPt + QuarterPt ELSE 0)
             + (IF wd.has_contact_form \/ wd.has_chat THEN HalfPt + QuarterPt ELSE 0)
             + (IF Verified(mp) THEN HalfPt ELSE 0),
             Pts(2))

\* faulty variant: a score of exactly 22 gets four stars
StarsAbove(score) ==
    IF score > Pts(22) THEN 5
    ELSE IF score >= Pts(18) THEN 4
    ELSE IF score >= Pts(13) THEN 3
    ELSE IF score >= Pts(8) THEN 2
    ELSE 1
_calculate_stars(score) ==
    IF score >= Pts(22) THEN 5
    ELSE IF score >= Pts(18) THEN 4
    ELSE IF score >= Pts(13) THEN 3
    ELSE IF score >= Pts(8) THEN 2
    ELSE 1

\* round(total, 1): to the nearest tenth, a tie to the even tenth
Round1(x) ==
    LET below == x \div 2
    IN  IF x % 2 = 0 THEN x
        ELSE IF below % 2 = 0 THEN 2 * below ELSE 2 * (below + 1)

CategoryNames ==
    <<"supplier_selection", "company_info", "compliance_certs",
      "performance_metrics", "risk_profile", "document_repository", "engagement">>

Breakdown(wd, mp, sd) ==
    [supplier_selection |-> _score_supplier_selection(wd),
     company_info |-> _score_company_info(wd),
     compliance_certs |-> _score_compliance(wd),
     performance_metrics |-> _score_performance(wd, sd),
     risk_profile |-> _score_risk(wd, sd, mp),
     document_repository |-> _score_documents(wd),
     engagement |-> _score_engagement(wd, mp)]

RECURSIVE SumOver(_, _, _)
SumOver(breakdown, field, k) ==
    IF k = 0 THEN 0
    ELSE breakdown[CategoryNames[k]][field] + SumOver(breakdown, field, k - 1)
\* sum(cat['points'] for cat in breakdown.values())
SumPoints(breakdown) == SumOver(breakdown, "points", Len(CategoryNames))

calculate_score(wd, mp, sd) ==
    [total |-> Round1(SumPoints(Breakdown(wd, mp, sd))),
     stars |-> _calculate_stars(SumPoints(Breakdown(wd, mp, sd))),
     details |-> Breakdown(wd, mp, sd)]

CalculateScore ==
    /\ entry = "calculate_score"
    /\ score_data = << >>
    /\ score_data' = calculate_score(website_data, marketplace_presence, sentiment_data)
    /\ UNCHANGED <<website_data, marketplace_presence, sentiment_data, star_score,
                   star_rating, phoneVars, certVars, contactVars, marketVars, dbVars, detectVars, analysisVars, pipelineVars>>

CalculateStars ==
    /\ entry = "_calculate_stars"
    /\ star_rating = 0
    /\ star_rating' = _calculate_stars(star_score)
    /\ UNCHANGED <<website_data, marketplace_presence, sentiment_data, score_data,
                   star_score, phoneVars, certVars, contactVars, marketVars, dbVars, detectVars, analysisVars, pipelineVars>>

\* the inputs tried, field by field
CompanyNames == {"", "Unknown", "Acme Steel"}
Places == {<<FALSE, FALSE>>, <<TRUE, FALSE>>, <<FALSE, TRUE>>}
Abouts == {<<FALSE, 0>>, <<TRUE, 0>>, <<TRUE, 3>>, <<TRUE, 7>>, <<TRUE, 12>>}
Sentiments ==
    {[sentiment_available |-> FALSE, sentiment_score |-> 20]}
    \cup [sentiment_available : {TRUE}, sentiment_score : {20, 45, 50, 65, 85}]
Marketplaces ==
    {[alibaba_verified |-> a, thomasnet_listed |-> t] :
        <<a, t>> \in {<<FALSE, FALSE>>, <<TRUE, FALSE>>, <<FALSE, TRUE>>}}

WebsiteData(name, failed, contact, place, certs, about, flags, talk) ==
    [company_name |-> name, analysis_failed |-> failed,
     email |-> contact[1], phone |-> contact[2],
     location |-> place[1], address |-> place[2],
     certifications |-> certs,
     about |-> about[1], years_in_business |-> about[2],
     has_ssl |-> flags[1], has_downloads |-> flags[2], recent_dates |-> flags[3],
     has_social_media |-> flags[4],
     has_contact_form |-> talk[1], has_chat |-> talk[2]]

InitScore ==
    /\ PipelineIdle
    /\ AnalysisIdle
    /\ DetectIdle
    /\ PhoneIdle
    /\ CertIdle
    /\ ContactIdle
    /\ MarketIdle
    /\ DbIdle
    /\ entry = "calculate_score"
    /\ \E name \in CompanyNames, failed \in BOOLEAN, contact \in BOOLEAN \X BOOLEAN,
          place \in Places, certs \in 0..MaxCerts, about \in Abouts,
          flags \in BOOLEAN \X BOOLEAN \X BOOLEAN \X BOOLEAN, talk \in Places :
         website_data =
            WebsiteData(name, failed, contact, place, certs, about, flags, talk)
    /\ marketplace_presence \in Marketplaces
    /\ sentiment_data \in Sentiments
    /\ score_data = << >>
    /\ star_score = 0
    /\ star_rating = 0

SpecScore == InitScore /\ [][CalculateScore]_vars

\* _calculate_stars on every score from 0 to 25, in steps of 0.05
InitStars ==
    /\ PipelineIdle
    /\ AnalysisIdle
    /\ DetectIdle
    /\ PhoneIdle
    /\ CertIdle
    /\ ContactIdle
    /\ MarketIdle
    /\ DbIdle
    /\ entry = "_calculate_stars"
    /\ website_data = << >>
    /\ marketplace_presence = << >>
    /\ sentiment_data = << >>
    /\ score_data = << >>
    /\ star_score \in 0..Pts(MaxTotal)
    /\ star_rating = 0

SpecStars == InitStars /\ [][CalculateStars]_vars

Scored == score_data # << >>
InRange(cat) == 0 <= cat.points /\ cat.points <= cat.max_points

\* C13: for every combination of inputs the reported total is exactly the
\* sum of the points of the 7 categories of the returned breakdown and lies
\* in [0,25]; each category's points lie in [0, max_points], and the seven
\* max_points sum to 25.
C13_TotalIsSumOfCategories ==
    Scored =>
        /\ score_data.total = SumPoints(score_data.details)
        /\ 0 <= score_data.total /\ score_data.total <= Pts(MaxTotal)
        /\ \A k \in 1..Len(CategoryNames) : InRange(score_data.details[CategoryNames[k]])
        /\ SumOver(score_data.details, "max_points", Len(CategoryNames)) = Pts(MaxTotal)

StarBreakpoints == {8, 13, 18, 22}
Rated == star_rating # 0

\* C14: for every score in [0,25], quarter points included, _calculate_stars
\* returns exactly one value in 1..5: 5 from 22, 4 from 18, 3 from 13, 2 from
\* 8, else 1; and no lower score gets more stars.
C14_StarsByBreakpoints ==
    Rated =>
        /\ star_rating \in 1..5
        /\ star_rating = 1 + Cardinality({b \in StarBreakpoints : star_score >= Pts(b)})
        /\ \A lower \in 0..star_score : _calculate_stars(lower) <= star_rating

\* the score 22 exactly was rated, with five stars
C14_Witness == Rated /\ star_score = Pts(22) /\ star_rating = 5

\* zero certifications, no marketplace presence, sentiment neutral or unavailable
ScenarioE ==
    /\ Scored
    /\ website_data.certifications = 0
    /\ ~Verified(marketplace_presence)
    /\ (sentiment_data.sentiment_available => sentiment_data.sentiment_score = 50)

\* C15: in Scenario E the certifications category has 0 points, the risk
\* category has less than its maximum 4: max(0, 4 - deductions) with the
\* deduction for the unverified marketplace and none for sentiment, and the
\* total still equals the sum of the category points.
C15_ScenarioE ==
    ScenarioE =>
        /\ score_data.details.compliance_certs.points = 0
        /\ score_data.details.risk_profile.points < Pts(4)
        /\ score_data.details.risk_profile.points =
              Max(0, Pts(4) - Pts(1) - (IF website_data.has_ssl THEN 0 ELSE Pts(1)))
        /\ score_data.total = SumPoints(score_data.details)

(* --------------------- contact extraction (utils.py) -------------------- *)
\* the page texts tried
Pages ==
    <<
       \* 1: an empty page
       <<>>,
       \* 2: no contact at all
       <<"W","e","l","c","o","m","e"," ","t","o"," ","A","c","m","e"," ","S","t","e","e","l",".">>,
       \* 3: Scenario B, the fax number first
       <<"F","a","x",":"," ","5","5","5","-","1","2","3","4"," ","T","e","l",":"," ","5","5","5",
         "-","9","9","9","9">>,
       \* 4: Scenario B, the Tel number first
       <<"T","e","l",":"," ","5","5","5","-","9","9","9","9"," ","F","a","x",":"," ","5","5","5",
         "-","1","2","3","4">>,
       \* 5: Scenario B, the two more than 50 characters apart
       <<"F","a","x",":"," ","5","5","5","-","1","2","3","4"," ","O","u","r"," ","m","i","l","l",
         " ","r","o","l","l","s"," ","s","t","e","e","l"," ","c","o","i","l"," ","a","n","d"," ",
         "p","l","a","t","e"," ","f","o","r"," ","e","v","e","r","y"," ","t","r","a","d","e",".",
         " ","T","e","l",":"," ","5","5","5","-","9","9","9","9">>,
       \* 6: the same, the Tel number first
       <<"T","e","l",":"," ","5","5","5","-","9","9","9","9"," ","O","u","r"," ","m","i","l","l",
         " ","r","o","l","l","s"," ","s","t","e","e","l"," ","c","o","i","l"," ","a","n","d"," ",
         "p","l","a","t","e"," ","f","o","r"," ","e","v","e","r","y"," ","t","r","a","d","e",".",
         " ","F","a","x",":"," ","5","5","5","-","1","2","3","4">>,
       \* 7: two emails, one number with (0)
       <<"M","a","i","l"," ","s","a","l","e","s","@","a","c","m","e",".","c","o","m"," ","o","r",
         " ","I","n","f","o","@","A","c","m","e",".","c","o","m",","," ","c","a","l","l"," ","+",
         "4","9","(","0",")","3","0"," ","1","2","3","4","5","6","7">>,
       \* 8: a tel: link and an email
       <<"<","a"," ","h","r","e","f","=","\"","t","e","l",":","+","1","-","2","0","2","-","5","5",
         "5","-","0","1","4","3","\"",">","C","a","l","l"," ","u","s","<","/","a",">"," ","s","a",
         "l","e","s","@","a","c","m","e",".","c","o","m">>,
       \* 9: the labels in the text, a number too short to match
       <<"E","m","a","i","l",":"," ","c","e","o","@","a","c","m","e",".","c","o","m"," ","P","h",
         "o","n","e",":"," ","1","2","3","4","5">>,
       \* 10: one short number
       <<"T","e","l",":"," ","5","5","5","-","9","9","9","9">>,
       \* 11: one complete number
       <<"T","e","l"," ","+","1"," ","2","0","2"," ","5","5","5"," ","0","1","4","3">>,
       \* 12: two numbers with 00 and two emails
       <<"O","f","f","i","c","e"," ","0","0","4","9"," ","3","0"," ","1","2","3","4","5","6","7",
         ","," ","f","a","x"," ","0","0","4","9"," ","3","0"," ","7","6","5","4","3","2","1",",",
         " ","s","a","l","e","s","@","a","c","m","e",".","c","o","m",","," ","I","n","f","o","@",
         "A","c","m","e",".","c","o","m">>,
       \* 13: seven numbers
       <<"T","e","l"," ","5","5","5","-","0","0","0","1",","," ","5","5","5","-","0","0","0","2",
         ","," ","5","5","5","-","0","0","0","3",","," ","5","5","5","-","0","0","0","4",","," ",
         "5","5","5","-","0","0","0","5",","," ","5","5","5","-","0","0","0","6",","," ","5","5",
         "5","-","0","0","0","7">>,
       \* 14: one number twice, the better listing last
       <<"F","a","x"," ","5","5","5","-","1","2","3","4","."," ","O","u","r"," ","m","i","l","l",
         " ","r","o","l","l","s"," ","s","t","e","e","l"," ","c","o","i","l"," ","a","n","d"," ",
         "p","l","a","t","e"," ","f","o","r"," ","e","v","e","r","y"," ","t","r","a","d","e",".",
         " ","T","e","l"," ","5","5","5"," ","1","2","3","4">>,
       \* 15: one number twice, the better listing first
       <<"T","e","l"," ","5","5","5"," ","1","2","3","4","."," ","O","u","r"," ","m","i","l","l",
         " ","r","o","l","l","s"," ","s","t","e","e","l"," ","c","o","i","l"," ","a","n","d"," ",
         "p","l","a","t","e"," ","f","o","r"," ","e","v","e","r","y"," ","t","r","a","d","e",".",
         " ","F","a","x"," ","5","5","5","-","1","2","3","4">>
    >>
PageIds == 1..Len(Pages)

LowerLetters == {UpperCase[c] : c \in DOMAIN UpperCase}
Letters == DOMAIN UpperCase \cup LowerLetters
\* [\s().-]
PhoneSeparators == SpaceChars \cup {"(", ")", ".", "-"}
QuoteChars == {"'", "\""}
\* the character at place i of text, "" outside it
CharAt(text, i) == IF i \in 1..Len(text) THEN text[i] ELSE ""
IsDigit(ch) == ch \in DigitChars

\* FAX_NEAR_REGEX
FAX_NEAR == <<"f","a","x">>
PHONE_KEYWORDS ==
    {<<"p","h","o","n","e">>,
     <<"t","e","l">>,
     <<"t","e","l","e","p","h","o","n","e">>,
     <<"c","o","n","t","a","c","t">>,
     <<"c","a","l","l">>,
     <<"o","f","f","i","c","e">>,
     <<"h","q">>,
     <<"s","w","i","t","c","h","b","o","a","r","d">>}

\* (?:\d[\s().-]?){6,15}\d from the digit at place j, the n-th of the run:
\* <<the place of the last digit taken, the number of digits taken>>
MinDigits == 7
MaxDigits == 16
RECURSIVE DigitRun(_, _, _)
DigitRun(text, j, n) ==
    IF n = MaxDigits THEN <<j, n>>
    ELSE IF IsDigit(CharAt(text, j + 1)) THEN DigitRun(text, j + 1, n + 1)
    ELSE IF CharAt(text, j + 1) \in PhoneSeparators /\ IsDigit(CharAt(text, j + 2))
         THEN DigitRun(text, j + 2, n + 1)
    ELSE <<j, n>>
\* the end of the run of digits starting at place q, 0 if fewer than 7 digits
RunEnd(text, q) ==
    IF IsDigit(CharAt(text, q)) /\ DigitRun(text, q, 1)[2] >= MinDigits
    THEN DigitRun(text, q, 1)[1] ELSE 0

\* (?:\+|00)?\s? at place i: the places the digits can start at, in the
\* order the pattern tries them
AfterPrefix(text, i) ==
    IF CharAt(text, i) = "+" THEN <<i + 1, i>>
    ELSE IF CharAt(text, i) = "0" /\ CharAt(text, i + 1) = "0" THEN <<i + 2, i>>
    ELSE <<i>>
AfterSpace(text, p) ==
    IF CharAt(text, p) \in SpaceChars THEN <<p + 1, p>> ELSE <<p>>
RECURSIVE Flatten(_)
Flatten(seqs) == IF seqs = << >> THEN << >> ELSE Head(seqs) \o Flatten(Tail(seqs))
DigitStarts(text, i) ==
    Flatten([k \in 1..Len(AfterPrefix(text, i)) |-> AfterSpace(text, AfterPrefix(text, i)[k])])
RECURSIVE FirstRunEnd(_, _)
FirstRunEnd(text, starts) ==
    IF starts = << >> THEN 0
    ELSE IF RunEnd(text, Head(starts)) # 0 THEN RunEnd(text, Head(starts))
    ELSE FirstRunEnd(text, Tail(starts))
\* PHONE_REGEX matched at place i: the place of its last character, or 0
PhoneMatchEnd(text, i) == FirstRunEnd(text, DigitStarts(text, i))

\* PHONE_REGEX.finditer(text): the matches <<first place, last place>>
RECURSIVE PhoneMatches(_, _)
PhoneMatches(text, i) ==
    IF i > Len(text) THEN << >>
    ELSE IF PhoneMatchEnd(text, i) # 0
         THEN <<<<i, PhoneMatchEnd(text, i)>>>> \o PhoneMatches(text, PhoneMatchEnd(text, i) + 1)
    ELSE PhoneMatches(text, i + 1)

\* text[a - 1:b], cut to the text as Python cuts a slice
Slice(text, a, b) == SubSeq(text, Max(1, a), Min(Len(text), b))

\* TEL_HREF_REGEX matched at place i: <<the first and last place of the
\* group, the last place of the match>>, or << >>
TelHrefAt(text, i) ==
    LET open == i + 5
        from == i + 10
        close == FirstOf(text, QuoteChars, from)
    IN  IF /\ Lower(Slice(text, i, i + 4)) = <<"h","r","e","f","=">>
           /\ CharAt(text, open) \in QuoteChars
           /\ Lower(Slice(text, open + 1, open + 4)) = <<"t","e","l",":">>
           /\ close > from
           /\ close <= Len(text)
        THEN <<from, close - 1, close>>
        ELSE << >>
RECURSIVE TelHrefMatches(_, _)
TelHrefMatches(text, i) ==
    IF i > Len(text) THEN << >>
    ELSE IF TelHrefAt(text, i) # << >>
         THEN <<<<i>> \o TelHrefAt(text, i)>> \o TelHrefMatches(text, TelHrefAt(text, i)[3] + 1)
    ELSE TelHrefMatches(text, i + 1)

\* text[max(0, m.start() - around):min(len(text), m.end() + around)]
HrefWindow == 80
PhoneWindow == 50
Context(text, first, last, around) ==
    SubSeq(text, Max(1, first - around), Min(Len(text), last + around))

ContainsAny(s, patterns) == \E p \in patterns : Contains(s, p)

Candidate(raw, clean, score) == [raw |-> raw, clean |-> clean, score |-> score]
HrefScore == 5
TelHrefCandidate(text, m) ==
    Candidate(SubSeq(text, m[2], m[3]),
              _clean_visible_number(SubSeq(text, m[2], m[3])), HrefScore)

\* the score of a visible number from its context and its clean form
VisibleScore(ctx, clean) ==
    (IF ContainsAny(Lower(ctx), PHONE_KEYWORDS) THEN 3 ELSE 0)
    - (IF Contains(Lower(ctx), FAX_NEAR) THEN 4 ELSE 0)
    + (IF Len(_digits_only(clean)) >= 10 THEN 1 ELSE 0)
    + (IF clean # << >> /\ Head(clean) = "+" THEN 1 ELSE 0)
VisibleCandidate(text, m) ==
    Candidate(SubSeq(text, m[1], m[2]),
              _clean_visible_number(SubSeq(text, m[1], m[2])),
              VisibleScore(Context(text, m[1], m[2], PhoneWindow),
                           _clean_visible_number(SubSeq(text, m[1], m[2]))))

\* candidates, before the merge: the tel: links, then the visible numbers,
\* those with an empty clean form left out
AllCandidates(text) ==
    SelectSeq([k \in 1..Len(TelHrefMatches(text, 1)) |->
                 TelHrefCandidate(text, TelHrefMatches(text, 1)[k])]
              \o [k \in 1..Len(PhoneMatches(text, 1)) |->
                    VisibleCandidate(text, PhoneMatches(text, 1)[k])],
              LAMBDA c : c.clean # << >>)

\* buckets, in the order the keys were first inserted: a later candidate of
\* the same digits replaces the bucket's only with a higher score
BucketOf(buckets, key) ==
    IF \E j \in 1..Len(buckets) : _digits_only(buckets[j].clean) = key
    THEN CHOOSE j \in 1..Len(buckets) : _digits_only(buckets[j].clean) = key
    ELSE 0
\* faulty variant: a later candidate of the same digits always replaces
RECURSIVE BucketedLast(_, _)
BucketedLast(cands, buckets) ==
    IF cands = << >> THEN buckets
    ELSE LET c == Head(cands)
             key == _digits_only(c.clean)
             at == BucketOf(buckets, key)
         IN  BucketedLast(Tail(cands),
                 IF key = << >> THEN buckets
                 ELSE IF at = 0 THEN Append(buckets, c)
                 ELSE [buckets EXCEPT ![at] = c])
RECURSIVE Bucketed(_, _)
Bucketed(cands, buckets) ==
    IF cands = << >> THEN buckets
    ELSE LET c == Head(cands)
             key == _digits_only(c.clean)
             at == BucketOf(buckets, key)
         IN  Bucketed(Tail(cands),
                 IF key = << >> THEN buckets
                 ELSE IF at = 0 THEN Append(buckets, c)
                 ELSE IF c.score > buckets[at].score
                      THEN [buckets EXCEPT ![at] = c]
                 ELSE buckets)

\* deduped.sort(key=score, reverse=True): stable, equal scores keep their order
RECURSIVE SortedByScore(_, _)
SortedByScore(cands, sorted) ==
    IF cands = << >> THEN sorted
    ELSE LET c == Head(cands)
             ahead == Cardinality({j \in 1..Len(sorted) : sorted[j].score >= c.score})
         IN  SortedByScore(Tail(cands),
                 SubSeq(sorted, 1, ahead) \o <<c>> \o SubSeq(sorted, ahead + 1, Len(sorted)))

extract_candidate_phones(text) ==
    IF text = << >> THEN << >>
    ELSE SortedByScore(Bucketed(AllCandidates(text), << >>), << >>)

\* EMAIL_REGEX: [A-Z0-9._%+-]+@[A-Z0-9.-]+\.[A-Z]{2,}, case ignored
LocalChars == Letters \cup DigitChars \cup {".", "_", "%", "+", "-"}
DomainChars == Letters \cup DigitChars \cup {".", "-"}
\* the last place of the run of characters of chars that starts at place
\* from; from - 1 when there is none
RECURSIVE RunLast(_, _, _)
RunLast(text, chars, from) ==
    IF CharAt(text, from) \in chars THEN RunLast(text, chars, from + 1) ELSE from - 1
\* the dots of the domain a top-level name of two letters or more follows
TldDots(text, at) ==
    {k \in (at + 2)..RunLast(text, DomainChars, at + 1) :
        /\ text[k] = "."
        /\ CharAt(text, k + 1) \in Letters
        /\ CharAt(text, k + 2) \in Letters}
\* EMAIL_REGEX matched at place i: the place of its last character, or 0
EmailEndAt(text, i) ==
    LET at == RunLast(text, LocalChars, i) + 1
    IN  IF at > i /\ CharAt(text, at) = "@" /\ TldDots(text, at) # {}
        THEN RunLast(text, Letters, MaxOf(TldDots(text, at)) + 1)
        ELSE 0
\* EMAIL_REGEX.findall(html_text)
RECURSIVE EmailMatches(_, _)
EmailMatches(text, i) ==
    IF i > Len(text) THEN << >>
    ELSE IF EmailEndAt(text, i) # 0
         THEN <<SubSeq(text, i, EmailEndAt(text, i))>>
              \o EmailMatches(text, EmailEndAt(text, i) + 1)
    ELSE EmailMatches(text, i + 1)
\* deduplicated by lower case, the order kept
RECURSIVE UniqueEmails(_, _)
UniqueEmails(found, out) ==
    IF found = << >> THEN out
    ELSE UniqueEmails(Tail(found),
            IF \E k \in 1..Len(out) : Lower(out[k]) = Lower(Head(found))
            THEN out ELSE Append(out, Head(found)))
extract_emails(text) ==
    IF text = << >> THEN << >> ELSE UniqueEmails(EmailMatches(text, 1), << >>)

\* Trigger LLM if multiple plausible options or the best one looks incomplete
CompleteDigits == 9
_needs_llm_selection(cands) ==
    /\ Len(cands) # 0
    /\ \/ Len(cands) > 1
       \/ Len(_digits_only(cands[1].clean)) < CompleteDigits

\* the answers of the oracle tried: nothing, words only, a labelled number,
\* and each candidate as written
LLMAnswers(cands) ==
    {<< >>, <<"N","/","A">>,
     <<"P","h","o","n","e",":"," ","+","1"," ","2","0","2"," ","5","5","5"," ","0","1","4","3">>}
    \cup {cands[k].clean : k \in 1..Len(cands)}
\* _select_phone_via_llm when the oracle answers: out = _clean_visible_number(out)
_select_phone_via_llm(answer) == _clean_visible_number(answer)

\* what _format_with_phonenumbers can return besides None
Formats ==
    {<<"+","4","9"," ","3","0"," ","1","2","3","4","5","6","7">>,
     <<"+","1"," ","2","0","2","-","5","5","5","-","0","1","4","3">>}
TrunkZero == <<"(","0",")">>
KeptDigits == 8
EndsWith(s, tail) ==
    Len(tail) <= Len(s) /\ SubSeq(s, Len(s) - Len(tail) + 1, Len(s)) = tail
LastOf(s, n) == SubSeq(s, Max(1, Len(s) - n + 1), Len(s))
\* chosen_phone after a formatted number came back
PreferFormatted(chosen, formatted) ==
    IF /\ _digits_only(chosen) # << >>
       /\ _digits_only(formatted) # << >>
       /\ EndsWith(_digits_only(chosen), LastOf(_digits_only(formatted), KeptDigits))
       /\ Contains(chosen, TrunkZero)
       /\ ~Contains(formatted, TrunkZero)
    THEN chosen
    ELSE formatted

EmailLabel == <<"E","m","a","i","l",":">>
PhoneLabel == <<"P","h","o","n","e",":">>
\* faulty variant: one part for every email found
EveryEmail(found, phone) ==
    [k \in 1..Len(found) |-> EmailLabel \o <<" ">> \o found[k]]
    \o (IF phone # << >> THEN <<PhoneLabel \o <<" ">> \o phone>> ELSE << >>)
\* parts: "Email: " + emails[0] if there are emails, "Phone: " + chosen_phone
Parts(found, phone) ==
    (IF found # << >> THEN <<EmailLabel \o <<" ">> \o found[1]>> ELSE << >>)
    \o (IF phone # << >> THEN <<PhoneLabel \o <<" ">> \o phone>> ELSE << >>)
RECURSIVE JoinLines(_)
JoinLines(parts) ==
    IF parts = << >> THEN << >>
    ELSE IF Len(parts) = 1 THEN parts[1]
    ELSE parts[1] \o <<"\n">> \o JoinLines(Tail(parts))
\* "\n".join(parts).strip()
Packaged(found, phone) == Strip(JoinLines(Parts(found, phone)))

\* the two extractions of every page tried
PageOf(text) == CHOOSE p \in PageIds : Pages[p] = text
EmailsOf == [p \in PageIds |-> extract_emails(Pages[p])]
CandidatesOf == [p \in PageIds |-> extract_candidate_phones(Pages[p])]

\* if not html_text: return ""
ReturnEmptyPage ==
    /\ entry = "get_contact_details_smart"
    /\ contactpc = "start"
    /\ html_text = << >>
    /\ contact_details' = << >>
    /\ contactpc' = "returned"
    /\ UNCHANGED <<html_text, emails, phone_cands, llm_outcome, shortlist, chosen_phone>>
    /\ UNCHANGED <<phoneVars, certVars, scoreVars, marketVars, dbVars, detectVars, analysisVars, pipelineVars>>

\* emails = extract_emails(html_text); candidates = extract_candidate_phones(html_text)
GatherContacts ==
    /\ entry = "get_contact_details_smart"
    /\ contactpc = "start"
    /\ html_text # << >>
    /\ emails' = EmailsOf[PageOf(html_text)]
    /\ phone_cands' = CandidatesOf[PageOf(html_text)]
    /\ contactpc' = "gathered"
    /\ UNCHANGED <<html_text, llm_outcome, shortlist, chosen_phone, contact_details>>
    /\ UNCHANGED <<phoneVars, certVars, scoreVars, marketVars, dbVars, detectVars, analysisVars, pipelineVars>>

\* faulty variant: the whole list goes into the prompt
ShortlistAll(cands) == cands
\* shortlist = candidates[:6]
ShortlistCap == 6
Shortlist(cands) == SubSeq(cands, 1, Min(Len(cands), ShortlistCap))

Chosen(phone, outcome) ==
    /\ chosen_phone' = phone
    /\ llm_outcome' = outcome
    /\ shortlist' = IF outcome = "not_called" THEN << >> ELSE Shortlist(phone_cands)
    /\ contactpc' = "chosen"
    /\ UNCHANGED <<html_text, emails, phone_cands, contact_details>>
    /\ UNCHANGED <<phoneVars, certVars, scoreVars, marketVars, dbVars, detectVars, analysisVars, pipelineVars>>

\* if not candidates: chosen_phone = ""
ChooseNone ==
    /\ contactpc = "gathered"
    /\ phone_cands = << >>
    /\ Chosen(<< >>, "not_called")

\* the oracle is not needed: the best-scored candidate
ChooseBest ==
    /\ contactpc = "gathered"
    /\ phone_cands # << >>
    /\ ~_needs_llm_selection(phone_cands)
    /\ Chosen(phone_cands[1].clean, "not_called")

\* the oracle answers; an answer that cleans to "" falls back to the best
ChooseViaLLM ==
    /\ contactpc = "gathered"
    /\ _needs_llm_selection(phone_cands)
    /\ \E answer \in LLMAnswers(phone_cands) :
          IF _select_phone_via_llm(answer) # << >>
          THEN Chosen(_select_phone_via_llm(answer), "answered")
          ELSE Chosen(phone_cands[1].clean, "empty")

\* the oracle call raises: _select_phone_via_llm logs and returns ""
ChooseAfterLLMError ==
    /\ contactpc = "gathered"
    /\ _needs_llm_selection(phone_cands)
    /\ Chosen(phone_cands[1].clean, "failed")

ReturnContacts(phone) ==
    /\ chosen_phone' = phone
    /\ contact_details' = Packaged(emails, phone)
    /\ contactpc' = "returned"
    /\ UNCHANGED <<html_text, emails, phone_cands, llm_outcome, shortlist>>
    /\ UNCHANGED <<phoneVars, certVars, scoreVars, marketVars, dbVars, detectVars, analysisVars, pipelineVars>>

\* no phone chosen, or _format_with_phonenumbers returns None
PackageAsChosen ==
    /\ contactpc = "chosen"
    /\ ReturnContacts(chosen_phone)

\* _format_with_phonenumbers returns an international format
PackageFormatted ==
    /\ contactpc = "chosen"
    /\ chosen_phone # << >>
    /\ \E formatted \in Formats : ReturnContacts(PreferFormatted(chosen_phone, formatted))

InitContact ==
    /\ PipelineIdle
    /\ AnalysisIdle
    /\ DetectIdle
    /\ PhoneIdle
    /\ CertIdle
    /\ ScoreIdle
    /\ MarketIdle
    /\ DbIdle
    /\ entry = "get_contact_details_smart"
    /\ \E p \in PageIds : html_text = Pages[p]
    /\ emails = << >>
    /\ phone_cands = << >>
    /\ llm_outcome = "not_called"
    /\ shortlist = << >>
    /\ chosen_phone = << >>
    /\ contact_details = << >>
    /\ contactpc = "start"

NextContact ==
    \/ ReturnEmptyPage
    \/ GatherContacts
    \/ ChooseNone
    \/ ChooseBest
    \/ ChooseViaLLM
    \/ ChooseAfterLLMError
    \/ PackageAsChosen
    \/ PackageFormatted

SpecContact == InitContact /\ [][NextContact]_vars

\* the call is one thread running to its return: it always takes its next step
SpecContactFair == SpecContact /\ WF_vars(NextContact)

FaxListing == <<"F","a","x",":"," ","5","5","5","-","1","2","3","4">>
TelListing == <<"T","e","l",":"," ","5","5","5","-","9","9","9","9">>
FaxNumber == <<"5","5","5","-","1","2","3","4">>
TelNumber == <<"5","5","5","-","9","9","9","9">>
\* the page lists "Fax: 555-1234" and "Tel: 555-9999", and was searched
ScenarioB ==
    /\ Contains(html_text, FaxListing)
    /\ Contains(html_text, TelListing)
    /\ contactpc \in {"gathered", "chosen", "returned"}

\* C16: on a page listing "Fax: 555-1234" and "Tel: 555-9999", wherever and
\* in whichever order, the ranking puts the Tel number strictly ahead of the
\* fax number, so the phone chosen without the oracle or after a failed
\* oracle call is the Tel number.
C16_TelAheadOfFax ==
    ScenarioB =>
        /\ \E t, f \in 1..Len(phone_cands) :
              /\ phone_cands[t].clean = TelNumber
              /\ phone_cands[f].clean = FaxNumber
              /\ t < f
              /\ phone_cands[t].score > phone_cands[f].score
        /\ (contactpc = "chosen" /\ llm_outcome \in {"not_called", "failed"})
              => chosen_phone = TelNumber

CountOf(s, p) ==
    Cardinality({k \in 1..(Len(s) - Len(p) + 1) : SubSeq(s, k, k + Len(p) - 1) = p})

\* C19: get_contact_details_smart never throws: from every page text and
\* every oracle outcome (answer, empty answer, failure) it goes on to return;
\* it returns the empty string or a string with at most one "Email:" and at
\* most one "Phone:" entry, and the empty string when it found no email and
\* no phone candidate.
C19_AtMostOneEach ==
    /\ <>(contactpc = "returned")
    /\ [](contactpc = "returned" =>
            /\ CountOf(contact_details, EmailLabel) <= 1
            /\ CountOf(contact_details, PhoneLabel) <= 1
            /\ contact_details # << >> =>
                  CountOf(contact_details, EmailLabel)
                    + CountOf(contact_details, PhoneLabel) >= 1
            /\ (emails = << >> /\ phone_cands = << >>) => contact_details = << >>)

\* two emails and two phone candidates were found, the oracle call failed,
\* and one email and one phone were returned
C19_Witness ==
    /\ contactpc = "returned"
    /\ Len(emails) = 2
    /\ Len(phone_cands) = 2
    /\ llm_outcome = "failed"
    /\ CountOf(contact_details, EmailLabel) = 1
    /\ CountOf(contact_details, PhoneLabel) = 1

(* ------------ marketplace presence (marketplace_scraper_enhanced.py) ---- *)
MaxHrefs == 3

\* the links a supplier's page can hold
Hrefs ==
    <<
       \* 1: an absolute link to a store on alibaba.com
       <<"h","t","t","p","s",":","/","/","w","w","w",".","a","l","i","b","a","b","a",".","c","o","m","/","s","o","m","e","-","s","t","o","r","e">>,
       \* 2: the same store, written without a scheme
       <<"a","l","i","b","a","b","a",".","c","o","m","/","s","o","m","e","-","s","t","o","r","e">>,
       \* 3: an absolute link to a ThomasNet profile
       <<"h","t","t","p","s",":","/","/","w","w","w",".","t","h","o","m","a","s","n","e","t",".","c","o","m","/","p","r","o","f","i","l","e","/","a","c","m","e">>,
       \* 4: a link inside the supplier's own site
       <<"h","t","t","p","s",":","/","/","a","c","m","e",".","c","o","m","/","a","b","o","u","t">>
    >>
\* the website_url values tried; << >> stands for None
Websites ==
    <<
       \* 1: the supplier's own host
       <<"h","t","t","p","s",":","/","/","a","c","m","e",".","c","o","m">>,
       \* 2: a store on Alibaba
       <<"h","t","t","p","s",":","/","/","a","c","m","e",".","e","n",".","a","l","i","b","a","b","a",".","c","o","m">>,
       \* 3: a ThomasNet profile
       <<"h","t","t","p","s",":","/","/","w","w","w",".","t","h","o","m","a","s","n","e","t",".","c","o","m","/","p","r","o","f","i","l","e","/","a","c","m","e">>,
       << >>
    >>
AlibabaCom == <<"a","l","i","b","a","b","a",".","c","o","m">>
ThomasnetCom == <<"t","h","o","m","a","s","n","e","t",".","c","o","m">>
Http == <<"h","t","t","p">>

\* 'alibaba.com' in urlparse(url.lower()).netloc
_is_alibaba_url(url) == url # << >> /\ Contains(NetlocOfText(Lower(url)), AlibabaCom)
_is_thomasnet_url(url) == url # << >> /\ Contains(NetlocOfText(Lower(url)), ThomasnetCom)

NoMethod == "None"
EmptyPresence ==
    [alibaba_verified |-> FALSE, alibaba_url |-> << >>, alibaba_method |-> NoMethod,
     thomasnet_listed |-> FALSE, thomasnet_url |-> << >>, thomasnet_method |-> NoMethod,
     scraper_available |-> FALSE, detection_method |-> NoMethod]

\* faulty variant: the website URL is not looked at
DirectMissed(url) == EmptyPresence
\* STRATEGY 1: the website URL itself is a marketplace URL
DirectPresence(url) ==
    LET alibaba == IF _is_alibaba_url(url)
                   THEN [EmptyPresence EXCEPT !.alibaba_verified = TRUE,
                                              !.alibaba_url = url,
                                              !.alibaba_method = "direct_url",
                                              !.detection_method = "direct_url"]
                   ELSE EmptyPresence
    IN  IF _is_thomasnet_url(url)
        THEN [alibaba EXCEPT !.thomasnet_listed = TRUE,
                             !.thomasnet_url = url,
                             !.thomasnet_method = "direct_url"]
        ELSE alibaba

StartsWith(s, head) == Len(head) <= Len(s) /\ SubSeq(s, 1, Len(head)) = head
\* a proper link to the marketplace: the name in href.lower(), href.startswith('http')
LinksTo(href, marketplace) == Contains(Lower(href), marketplace) /\ StartsWith(href, Http)
\* links[:100]
LinkCap == 100
Scanned(hrefs) == SubSeq(hrefs, 1, Min(Len(hrefs), LinkCap))
\* the first proper link to the marketplace among the links scanned, or << >>
FirstLinkTo(hrefs, marketplace) ==
    IF \E k \in 1..Len(hrefs) : LinksTo(hrefs[k], marketplace)
    THEN hrefs[CHOOSE k \in 1..Len(hrefs) :
                  /\ LinksTo(hrefs[k], marketplace)
                  /\ \A j \in 1..(k - 1) : ~LinksTo(hrefs[j], marketplace)]
    ELSE << >>
\* _find_marketplace_links_on_website, the page loaded
_find_marketplace_links_on_website(hrefs) ==
    [alibaba_url |-> FirstLinkTo(Scanned(hrefs), AlibabaCom),
     thomasnet_url |-> FirstLinkTo(Scanned(hrefs), ThomasnetCom)]

\* faulty variant: a link found is not recorded as verification
LinksIgnored(found, marketplace_links) == found
\* STRATEGY 2: the links found on the supplier's own website
LinkPresence(found, marketplace_links) ==
    LET alibaba == IF marketplace_links.alibaba_url # << >>
                   THEN [found EXCEPT !.alibaba_verified = TRUE,
                                      !.alibaba_url = marketplace_links.alibaba_url,
                                      !.alibaba_method = "website_link"]
                   ELSE found
    IN  IF marketplace_links.thomasnet_url # << >>
        THEN [alibaba EXCEPT !.thomasnet_listed = TRUE,
                             !.thomasnet_url = marketplace_links.thomasnet_url,
                             !.thomasnet_method = "website_link"]
        ELSE alibaba

\* the presence record is set up and STRATEGY 1 applied
DirectDetection ==
    /\ entry = "check_marketplace_presence"
    /\ mppc = "start"
    /\ presence' = DirectPresence(website_url)
    /\ mppc' = IF /\ website_url # << >>
                  /\ ~presence'.alibaba_verified
                  /\ ~presence'.thomasnet_listed
               THEN "links" ELSE "returned"
    /\ UNCHANGED <<website_url, page_hrefs, searches>>
    /\ UNCHANGED <<phoneVars, certVars, scoreVars, contactVars, dbVars, detectVars, analysisVars, pipelineVars>>

\* the browser cannot be initialized, or loading the page raises: no links
LinksUnavailable ==
    /\ mppc = "links"
    /\ mppc' = "returned"
    /\ UNCHANGED <<website_url, page_hrefs, presence, searches>>
    /\ UNCHANGED <<phoneVars, certVars, scoreVars, contactVars, dbVars, detectVars, analysisVars, pipelineVars>>

\* the page loads: its links are scanned; STRATEGY 3 searches nothing
ScanLinks ==
    /\ mppc = "links"
    /\ presence' = LinkPresence(presence, _find_marketplace_links_on_website(page_hrefs))
    /\ mppc' = "returned"
    /\ UNCHANGED <<website_url, page_hrefs, searches>>
    /\ UNCHANGED <<phoneVars, certVars, scoreVars, contactVars, dbVars, detectVars, analysisVars, pipelineVars>>

InitMarket ==
    /\ PipelineIdle
    /\ AnalysisIdle
    /\ DetectIdle
    /\ PhoneIdle
    /\ CertIdle
    /\ ScoreIdle
    /\ ContactIdle
    /\ DbIdle
    /\ entry = "check_marketplace_presence"
    /\ \E w \in 1..Len(Websites) : website_url = Websites[w]
    /\ \E ids \in SeqsUpTo(1..Len(Hrefs), MaxHrefs) :
          page_hrefs = [k \in 1..Len(ids) |-> Hrefs[ids[k]]]
    /\ presence = << >>
    /\ searches = 0
    /\ mppc = "start"

NextMarket == DirectDetection \/ LinksUnavailable \/ ScanLinks

SpecMarket == InitMarket /\ [][NextMarket]_vars

\* the supplier's own host is no marketplace, its page loaded, and the page
\* holds an absolute link to a store on alibaba.com
ScenarioD ==
    /\ mppc = "returned"
    /\ website_url # << >>
    /\ ~_is_alibaba_url(website_url)
    /\ ~_is_thomasnet_url(website_url)
    /\ \E k \in 1..Len(page_hrefs) : page_hrefs[k] = Hrefs[1]
    /\ presence.alibaba_url # << >>

\* C17: for a supplier whose own host is no marketplace and whose homepage
\* links to alibaba.com/some-store, the presence record returned has
\* alibaba_verified true and detection_method "website_link", and no
\* marketplace-side search was attempted.
C17_WebsiteLinkDetected ==
    ScenarioD =>
        /\ presence.alibaba_verified
        /\ presence.detection_method = "website_link"
        /\ searches = 0

(* ------------ persistence of an analysis (suplink_db.py) ---------------- *)
MaxRuns == 2
MaxBusinesses == 2
Runs == 1..MaxRuns
SiteUrls == {"https://acme.com", "https://bolt.com"}

\* the business a run is working on
Business(p) == businesses[p][progress[p] + 1]
\* the rows select(...).eq('website_url', url) returns
RowsOf(url) == SelectSeq(suplink_discovered, LAMBDA row : row.website_url = url)
\* the id the table gives the next row
NextId == Len(suplink_discovered) + 1
\* _map_to_schema: the columns of the row, last_analyzed read from the clock
_map_to_schema(url, clock) == [website_url |-> url, last_analyzed |-> clock]
\* the run goes on to its next business, or finishes
Advance(p) ==
    /\ progress' = [progress EXCEPT ![p] = @ + 1]
    /\ runpc' = [runpc EXCEPT ![p] =
                    IF progress[p] + 1 < Len(businesses[p]) THEN "check" ELSE "finished"]

\* run_analysis: get_business_by_url finds the URL and the business is skipped
SkipExisting(p) ==
    /\ entry = "save_business_analysis"
    /\ runpc[p] = "check"
    /\ RowsOf(Business(p)) # << >>
    /\ Advance(p)
    /\ UNCHANGED <<suplink_discovered, unique_website_url, now, businesses, supabase_record,
                   existing_id, success>>
    /\ UNCHANGED <<phoneVars, certVars, scoreVars, contactVars, marketVars, detectVars, analysisVars, pipelineVars>>

\* run_analysis: get_business_by_url returns None (no row, or the query raised)
\* and the business is analyzed
AnalyzeNew(p) ==
    /\ runpc[p] = "check"
    /\ runpc' = [runpc EXCEPT ![p] = "analyzed"]
    /\ UNCHANGED <<suplink_discovered, unique_website_url, now, businesses, progress,
                   supabase_record, existing_id, success>>
    /\ UNCHANGED <<phoneVars, certVars, scoreVars, contactVars, marketVars, detectVars, analysisVars, pipelineVars>>

\* run_analysis: analysis_status is not 'completed', nothing is saved
AnalysisFailed(p) ==
    /\ runpc[p] = "analyzed"
    /\ Advance(p)
    /\ UNCHANGED <<suplink_discovered, unique_website_url, now, businesses, supabase_record,
                   existing_id, success>>
    /\ UNCHANGED <<phoneVars, certVars, scoreVars, contactVars, marketVars, detectVars, analysisVars, pipelineVars>>

\* save_business_analysis: the row is mapped and the table asked for the URL
SelectExisting(p) ==
    /\ runpc[p] = "analyzed"
    /\ existing_id' = [existing_id EXCEPT ![p] =
                       IF RowsOf(Business(p)) # << >> THEN RowsOf(Business(p))[1].id ELSE 0]
    /\ supabase_record' = [supabase_record EXCEPT ![p] = _map_to_schema(Business(p), now)]
    /\ now' = now + 1
    /\ runpc' = [runpc EXCEPT ![p] = "selected"]
    /\ UNCHANGED <<suplink_discovered, unique_website_url, businesses, progress, success>>
    /\ UNCHANGED <<phoneVars, certVars, scoreVars, contactVars, marketVars, detectVars, analysisVars, pipelineVars>>

\* table.update(record).eq('id', business_id)
Updated(rows, id, record) ==
    [k \in 1..Len(rows) |-> IF rows[k].id = id THEN [id |-> id] @@ record ELSE rows[k]]

\* save_business_analysis: existing.data is not empty, the row is updated
UpdateExisting(p) ==
    /\ runpc[p] = "selected"
    /\ existing_id[p] # 0
    /\ suplink_discovered' =
          Updated(suplink_discovered, existing_id[p],
                  [supabase_record[p] EXCEPT !.last_analyzed = now])
    /\ now' = now + 1
    /\ success' = [success EXCEPT ![p] = Append(@, TRUE)]
    /\ Advance(p)
    /\ UNCHANGED <<unique_website_url, businesses, supabase_record, existing_id>>
    /\ UNCHANGED <<phoneVars, certVars, scoreVars, contactVars, marketVars, detectVars, analysisVars, pipelineVars>>

\* save_business_analysis: existing.data is empty, the row is inserted; a table
\* that rejects the row makes execute() raise and the save returns False
InsertNew(p) ==
    /\ runpc[p] = "selected"
    /\ existing_id[p] = 0
    /\ IF unique_website_url /\ RowsOf(Business(p)) # << >>
       THEN /\ success' = [success EXCEPT ![p] = Append(@, FALSE)]
            /\ UNCHANGED suplink_discovered
       ELSE /\ suplink_discovered' =
                   Append(suplink_discovered,
                          [id |-> NextId] @@ supabase_record[p])
            /\ success' = [success EXCEPT ![p] = Append(@, TRUE)]
    /\ Advance(p)
    /\ UNCHANGED <<unique_website_url, now, businesses, supabase_record, existing_id>>
    /\ UNCHANGED <<phoneVars, certVars, scoreVars, contactVars, marketVars, detectVars, analysisVars, pipelineVars>>

\* save_business_analysis: a request raises, the save returns False
SaveRaises(p) ==
    /\ runpc[p] = "selected"
    /\ success' = [success EXCEPT ![p] = Append(@, FALSE)]
    /\ Advance(p)
    /\ UNCHANGED <<suplink_discovered, unique_website_url, now, businesses,
                   supabase_record, existing_id>>
    /\ UNCHANGED <<phoneVars, certVars, scoreVars, contactVars, marketVars, detectVars, analysisVars, pipelineVars>>

InitDb ==
    /\ PipelineIdle
    /\ AnalysisIdle
    /\ DetectIdle
    /\ PhoneIdle
    /\ CertIdle
    /\ ScoreIdle
    /\ ContactIdle
    /\ MarketIdle
    /\ entry = "save_business_analysis"
    /\ suplink_discovered = << >>
    /\ unique_website_url \in BOOLEAN
    /\ now = 1
    /\ businesses \in [Runs -> SeqsUpTo(SiteUrls, MaxBusinesses) \ {<< >>}]
    /\ progress = [p \in Runs |-> 0]
    /\ runpc = [p \in Runs |-> "check"]
    /\ supabase_record = [p \in Runs |-> << >>]
    /\ existing_id = [p \in Runs |-> 0]
    /\ success = [p \in Runs |-> << >>]

NextDb ==
    \E p \in Runs :
        \/ SkipExisting(p)
        \/ AnalyzeNew(p)
        \/ AnalysisFailed(p)
        \/ SelectExisting(p)
        \/ UpdateExisting(p)
        \/ InsertNew(p)
        \/ SaveRaises(p)

SpecDb == InitDb /\ [][NextDb]_vars

\* no two rows of the table share a website_url
OneRowPerUrl ==
    \A j, k \in 1..Len(suplink_discovered) :
        suplink_discovered[j].website_url = suplink_discovered[k].website_url => j = k
\* run p sends the write of a save in this step
SaveWrites(p) == UpdateExisting(p) \/ InsertNew(p)
\* the row of the URL is kept as the only one and its last_analyzed moves forward
RowBumped(url) ==
    /\ Len(suplink_discovered') = Len(suplink_discovered)
    /\ \E k \in 1..Len(suplink_discovered) :
          /\ suplink_discovered[k].website_url = url
          /\ suplink_discovered'[k].id = suplink_discovered[k].id
          /\ suplink_discovered'[k].website_url = url
          /\ suplink_discovered'[k].last_analyzed > suplink_discovered[k].last_analyzed

\* C18: after any sequence of saves, two analysis runs saving the same
\* website_url concurrently included, the table holds at most one row per
\* website_url, and a save that writes for a URL which already has a row
\* updates that row and moves its last_analyzed forward instead of inserting a
\* second row.
C18_UpsertByWebsiteUrl ==
    /\ []OneRowPerUrl
    /\ [][\A p \in Runs :
            (SaveWrites(p) /\ RowsOf(Business(p)) # << >>) => RowBumped(Business(p))]_vars

(* ------------ the validator returns ------------------------------------ *)
\* a future is done and the completion loop has not taken it yet
Completion == \E i \in Tasks : i \notin yielded /\ Done(i)
\* a validation is still running in the pool
InFlight == \E j \in Tasks : wpc[j] \in Running

\* C20: with every validate call terminating and the pool threads scheduled
\* fairly, the validator returns, whatever the number of links, the quota and
\* the results (None, an entry, an exception); once the flag is set the loop
\* takes no further result, and it has a completion to wake on at once, so it
\* does not wait for the validations still running.
C20_ValidatorReturns ==
    /\ <>(mainpc = "returned")
    /\ [](mainpc = "iter" /\ stop_event => Completion)
    /\ [][stop_event => yielded' = yielded]_vars
    /\ [](mainpc = "returned" => stop_event \/ yielded = Tasks \/ \E i \in Tasks : wpc[i] = "failed")

\* the validator has returned on the flag while a validation is still running
C20_Witness == mainpc = "returned" /\ stop_event /\ InFlight

(* ------------ the validator's list at its return ------------------------ *)
\* the validate function of task i returned something other than None
NonNull(i) == result[i] # NoneResult
\* how often the entry v is in the shared list, and how many tasks returned it
TimesListed(v) == Cardinality({k \in 1..Len(validated_links) : validated_links[k] = v})
TimesReturned(v) == Cardinality({i \in Tasks : NonNull(i) /\ result[i] = v})
\* the validator has returned, the flag is not set and no worker raised
QuietReturn ==
    /\ mainpc \in {"returned", "done"}
    /\ ~stop_event
    /\ \A i \in Tasks : wpc[i] # "failed"

\* C21: when the validator has returned with the flag never set and no worker
\* having raised, every submitted URL's validation has completed, the shared
\* list holds exactly one entry per URL whose validation returned a non-null
\* result, and nothing is appended after the return.
C21_CompleteOnQuietReturn ==
    /\ [](QuietReturn =>
            /\ \A i \in Tasks : wpc[i] = "finished"
            /\ Len(validated_links) = Cardinality({i \in Tasks : NonNull(i)})
            /\ \A i \in Tasks : NonNull(i) => TimesListed(result[i]) = TimesReturned(result[i]))
    /\ [][QuietReturn => validated_links' = validated_links]_vars
\* a quiet return over three URLs: one accepted, the others None
C21_Witness ==
    /\ QuietReturn
    /\ Len(links) = 3
    /\ Len(validated_links) = 1
    /\ \E i \in Tasks : result[i] = Accepted(links[i], links[i])
    /\ \E i \in Tasks : result[i] = NoneResult

(* ------------ a pipeline run about to reach its quota ------------------- *)
\* the URLs still in validation when the run is one entry short of its quota
MaxTail == 2
\* the candidate the provider listed again and again, and the others
Repeat == 1
Passing == Range(exclude_b2b_websites(<<1, 2, 3, 5>>))
\* the tasks of the URLs after the repeated ones
TailTasks(q) == q..(q + MaxTail - 1)

\* search_suppliers with the quota 15, or search_suppliers_v2 in quick mode,
\* over quota - 1 listings of one URL followed by MaxTail more: the run at the
\* moment the first quota - 1 futures have been accepted, appended and taken
\* by the completion loop, the others not yet started
InitNearQuota ==
    /\ ServicesIdle
    /\ AdapterIdle
    /\ entry \in {"search_suppliers", "search_suppliers_v2"}
    /\ limit = IF entry = "search_suppliers" THEN LegacyLimit ELSE QuickLimit
    /\ \E tail \in [1..MaxTail -> Passing] :
          links = [k \in 1..(limit - 1) |-> Repeat] \o tail
    /\ candidates = links
    /\ max_workers = DefaultWorkers(Len(links))
    /\ IF entry = "search_suppliers" THEN prefetched_texts = NoPrefetch
       ELSE \E K \in SUBSET Range(links) : prefetched_texts = Prefetched(K)
    /\ wpc = [i \in 1..Len(links) |-> IF i < limit THEN "finished" ELSE "pending"]
    /\ result = [i \in 1..Len(links) |->
                    IF i < limit THEN Accepted(Repeat, Repeat) ELSE NoneResult]
    /\ validated_links = [k \in 1..(limit - 1) |-> Accepted(Repeat, Repeat)]
    /\ stop_event = FALSE
    /\ lock = NoneVal
    /\ mainpc = "iter"
    /\ yielded = 1..(limit - 1)
    /\ result_list = << >>

NextNearQuota ==
    \/ \E i \in Tasks : LoopBreak(i) \/ LoopNext(i)
    \/ LoopEnd
    \/ Assemble
    \/ \E i \in Tasks : Worker(i)

SpecNearQuota == InitNearQuota /\ [][NextNearQuota]_vars

\* the validator has returned to the pipeline and task i is still running; no
\* task starts after the return (CancelPending), so task i was in flight at it
InFlightAtReturn(i) ==
    i \in Tasks /\ mainpc \in {"returned", "done"} /\ wpc[i] \in Running
\* the list the pipeline returned holds the entry of task i, and of no other
ListedFrom(i) ==
    /\ i \in Tasks
    /\ Truthy(result[i])
    /\ result[i][1] # NoneVal
    /\ \A j \in Tasks \ {i} : result[j] # result[i]
    /\ \E k \in 1..Len(result_list) : result_list[k] = SupplierRecord(result[i])

\* C22: a result produced by a worker that is still in flight when the
\* validator returns is never part of the list search_suppliers or
\* search_suppliers_v2 returns for that run.
C22_LateResultDiscarded ==
    \A i \in TailTasks(QuickLimit) :
        (mainpc = "done" /\ InFlightAtReturn(i)) => ~ListedFrom(i)

(* ------------ the order of the marketplace strategies ------------------- *)
\* the supplier's own URL is on a marketplace
OnMarketplace == _is_alibaba_url(website_url) \/ _is_thomasnet_url(website_url)
\* the links of the supplier's page are being harvested
Harvesting == mppc = "links"

\* C23: a supplier whose own host is a marketplace is verified by the direct
\* match and its page is not visited for links; the links are harvested only
\* when the direct match found neither marketplace; no marketplace-side
\* search is made.
C23_StrategiesInOrder ==
    /\ (mppc \in {"links", "returned"} /\ _is_alibaba_url(website_url)) =>
          /\ presence.alibaba_verified
          /\ presence.alibaba_url = website_url
          /\ presence.alibaba_method = "direct_url"
    /\ (mppc \in {"links", "returned"} /\ _is_thomasnet_url(website_url)) =>
          /\ presence.thomasnet_listed
          /\ presence.thomasnet_url = website_url
          /\ presence.thomasnet_method = "direct_url"
    /\ Harvesting =>
          /\ website_url # << >>
          /\ ~OnMarketplace
          /\ ~presence.alibaba_verified
          /\ ~presence.thomasnet_listed
    /\ searches = 0
\* a store on Alibaba whose page links to ThomasNet: verified by its URL, the
\* link not harvested
C23_Witness ==
    /\ mppc = "returned"
    /\ _is_alibaba_url(website_url)
    /\ presence.alibaba_method = "direct_url"
    /\ \E k \in 1..Len(page_hrefs) : LinksTo(page_hrefs[k], ThomasnetCom)
    /\ ~presence.thomasnet_listed

(* ------------ when the oracle picks the phone --------------------------- *)
\* the oracle was called for this page
Consulted == llm_outcome # "not_called"
\* the choice is made
PhoneChosen == contactpc \in {"chosen", "returned"}
DigitsOfBest == Len(_digits_only(phone_cands[1].clean))

\* C24: the oracle is consulted exactly when more than one candidate survived
\* the merge or the only one has fewer than 9 digits, never without a
\* candidate; its prompt lists at most the 6 top-ranked candidates; when the
\* call fails or the answer is empty after cleaning, the phone chosen is the
\* top candidate.
C24_OracleEscalation ==
    /\ PhoneChosen =>
          (Consulted <=> (\/ Len(phone_cands) > 1
                          \/ (Len(phone_cands) = 1 /\ DigitsOfBest < 9)))
    /\ PhoneChosen /\ Consulted =>
          /\ Len(shortlist) <= 6
          /\ shortlist = SubSeq(phone_cands, 1, Len(shortlist))
          /\ Len(shortlist) = 6 \/ shortlist = phone_cands
    /\ (contactpc = "chosen" /\ llm_outcome \in {"failed", "empty"}) =>
          chosen_phone = phone_cands[1].clean
\* seven candidates, six of them shown, the oracle failed
C24_Witness ==
    /\ contactpc = "chosen"
    /\ Len(phone_cands) = 7
    /\ Len(shortlist) = 6
    /\ llm_outcome = "failed"
    /\ chosen_phone = phone_cands[1].clean

(* ------------ the merge of the phone candidates ------------------------- *)
\* the candidates harvested from every page tried, before the merge
HarvestedOf == [p \in PageIds |-> AllCandidates(Pages[p])]
Harvested == HarvestedOf[PageOf(html_text)]
DigitsAt(cands, k) == _digits_only(cands[k].clean)
\* extract_candidate_phones has returned for a page with text
Extracted == contactpc \in {"gathered", "chosen", "returned"} /\ html_text # << >>

\* C25: the output of extract_candidate_phones never holds two candidates of
\* the same digit sequence; the candidate kept for a digit sequence is a
\* harvested one of the highest score among the harvested candidates of that
\* sequence; every harvested digit sequence is kept; the output is in order of
\* non-increasing score.
C25_MergedByDigits ==
    Extracted =>
        /\ \A j, k \in 1..Len(phone_cands) :
              DigitsAt(phone_cands, j) = DigitsAt(phone_cands, k) => j = k
        /\ \A k \in 1..Len(phone_cands) :
              /\ \E h \in 1..Len(Harvested) : Harvested[h] = phone_cands[k]
              /\ \A h \in 1..Len(Harvested) :
                    DigitsAt(Harvested, h) = DigitsAt(phone_cands, k)
                        => Harvested[h].score <= phone_cands[k].score
        /\ \A h \in 1..Len(Harvested) :
              DigitsAt(Harvested, h) # << >> =>
                  \E k \in 1..Len(phone_cands) : DigitsAt(phone_cands, k) = DigitsAt(Harvested, h)
        /\ \A j, k \in 1..Len(phone_cands) :
              j < k => phone_cands[j].score >= phone_cands[k].score
\* one number listed twice, the second listing scored higher: one candidate
\* is kept, the second
C25_Witness ==
    /\ Extracted
    /\ Len(Harvested) = 2
    /\ DigitsAt(Harvested, 1) = DigitsAt(Harvested, 2)
    /\ Harvested[1].score < Harvested[2].score
    /\ phone_cands = <<Harvested[2]>>

(* ------------ detection from one text (certification_detector.py) ------- *)
MaxPhrases == 2

\* a knowledge base of three certifications; variation_to_cert and
\* keyword_to_cert in the order _build_indices enters them: one variation is
\* shared by two certifications, one keyword by two
KbCerts == {"iso_9001", "iso_13485", "ce_mark"}
variation_to_cert ==
    <<[text |-> "iso 9001", certs |-> <<"iso_9001">>],
      [text |-> "quality management system", certs |-> <<"iso_9001", "iso_13485">>],
      [text |-> "ce marking", certs |-> <<"ce_mark">>]>>
keyword_to_cert ==
    <<[text |-> "quality", certs |-> <<"iso_9001">>],
      [text |-> "audited", certs |-> <<"iso_13485", "ce_mark">>]>>
VariationIds == 1..Len(variation_to_cert)
KeywordIds == 1..Len(keyword_to_cert)

\* SequenceMatcher(None, word_phrase, variation).ratio() of a phrase that is
\* not the variation: below the threshold, at it, above it
Ratios == {Frac(80, 100), Frac(85, 100), Frac(95, 100)}
FuzzyThreshold == Frac(85, 100)
ExactConfidence == Frac(95, 100)
FuzzyFactor == Frac(9, 10)
KeywordConfidence == Frac(60, 100)

\* the ratios of one phrase to the variations: the variations are far from
\* each other, so a phrase is near at most one of them
PhraseRatios ==
    {r \in [VariationIds -> Ratios] :
        Cardinality({v \in VariationIds : Leq(FuzzyThreshold, r[v])}) <= 1}
\* the texts tried: the empty text, and the texts given by the variations the
\* \b...\b search finds, the ratio of each phrase of the text to each
\* variation, and the keywords the search finds
BlankText == [blank |-> TRUE, exact |-> {}, ratio |-> << >>, keywords |-> {}]
Texts ==
    {BlankText} \cup
    [blank : {FALSE},
     exact : SUBSET VariationIds,
     ratio : SeqsUpTo(PhraseRatios, MaxPhrases),
     keywords : SUBSET KeywordIds]

IsDetected(found, id) == \E k \in 1..Len(found) : found[k].id = id
Found(id, conf, method) == [id |-> id, confidence |-> conf, detection_method |-> method]
\* for cert in certs: if cert_id not in detected: detected[cert_id] = ...
RECURSIVE AddCerts(_, _, _, _)
AddCerts(found, certs, conf, method) ==
    IF certs = << >> THEN found
    ELSE AddCerts(IF IsDetected(found, Head(certs)) THEN found
                  ELSE Append(found, Found(Head(certs), conf, method)),
                  Tail(certs), conf, method)

\* Method 1: exact variation matching
RECURSIVE ExactTier(_, _, _)
ExactTier(text, found, v) ==
    IF v > Len(variation_to_cert) THEN found
    ELSE ExactTier(text,
                   IF v \in text.exact
                   THEN AddCerts(found, variation_to_cert[v].certs, ExactConfidence,
                                 "exact_variation")
                   ELSE found,
                   v + 1)

\* if any(cert['id'] in detected for cert in certs): continue
AnyDetected(found, certs) == \E k \in 1..Len(certs) : IsDetected(found, certs[k])

\* Method 2: fuzzy matching, phrase by phrase, variation by variation
RECURSIVE FuzzyTier(_, _, _, _)
FuzzyTier(text, found, p, v) ==
    IF p > Len(text.ratio) THEN found
    ELSE IF v > Len(variation_to_cert) THEN FuzzyTier(text, found, p + 1, 1)
    ELSE FuzzyTier(text,
                   IF /\ ~AnyDetected(found, variation_to_cert[v].certs)
                      /\ Leq(FuzzyThreshold, text.ratio[p][v])
                   THEN AddCerts(found, variation_to_cert[v].certs,
                                 Times(text.ratio[p][v], FuzzyFactor), "fuzzy_match")
                   ELSE found,
                   p, v + 1)

\* Method 3: keyword-based detection
RECURSIVE KeywordTier(_, _, _)
KeywordTier(text, found, k) ==
    IF k > Len(keyword_to_cert) THEN found
    ELSE KeywordTier(text,
                     IF k \in text.keywords
                     THEN AddCerts(found, keyword_to_cert[k].certs, KeywordConfidence, "keyword")
                     ELSE found,
                     k + 1)

detect_from_text(text) ==
    IF text.blank THEN << >>
    ELSE KeywordTier(text, FuzzyTier(text, ExactTier(text, << >>, 1), 1, 1), 1)

DetectFromText ==
    /\ entry = "detect_from_text"
    /\ detectpc = "start"
    /\ detected' = detect_from_text(text_lower)
    /\ detectpc' = "returned"
    /\ UNCHANGED text_lower
    /\ UNCHANGED <<phoneVars, certVars, scoreVars, contactVars, marketVars, dbVars, analysisVars, pipelineVars>>

InitDetect ==
    /\ PipelineIdle
    /\ AnalysisIdle
    /\ PhoneIdle
    /\ CertIdle
    /\ ScoreIdle
    /\ ContactIdle
    /\ MarketIdle
    /\ DbIdle
    /\ entry = "detect_from_text"
    /\ text_lower \in Texts
    /\ detected = << >>
    /\ detectpc = "start"

SpecDetect == InitDetect /\ [][DetectFromText]_vars

\* the certifications of a knowledge-base entry
CertsOf(e) == {e.certs[k] : k \in 1..Len(e.certs)}
\* what of the text matches certification id, tier by tier
ExactMatched(id) == \E v \in text_lower.exact : id \in CertsOf(variation_to_cert[v])
FuzzyMatched(id) ==
    \E p \in 1..Len(text_lower.ratio) : \E v \in VariationIds :
        /\ id \in CertsOf(variation_to_cert[v])
        /\ Leq(FuzzyThreshold, text_lower.ratio[p][v])
KeywordMatched(id) == \E k \in text_lower.keywords : id \in CertsOf(keyword_to_cert[k])
MethodOf(id) ==
    IF IsDetected(detected, id)
    THEN detected[CHOOSE k \in 1..Len(detected) : detected[k].id = id].detection_method
    ELSE "none"
HighestTier(id) ==
    IF ExactMatched(id) THEN "exact_variation"
    ELSE IF FuzzyMatched(id) THEN "fuzzy_match"
    ELSE IF KeywordMatched(id) THEN "keyword"
    ELSE "none"
Lt(a, b) == ~Leq(b, a)

\* C26: detect_from_text returns at most one detection per certification, of
\* the highest tier that matched it: exact (0.95) before fuzzy (ratio * 0.9,
\* ratio >= 0.85) before keyword (0.6); so every exact detection is above
\* every fuzzy one in confidence and every fuzzy one above every keyword one.
C26_HighestTierWins ==
    detectpc = "returned" =>
        /\ \A j, k \in 1..Len(detected) : detected[j].id = detected[k].id => j = k
        /\ \A id \in KbCerts : MethodOf(id) = HighestTier(id)
        /\ \A k \in 1..Len(detected) :
              /\ detected[k].detection_method = "exact_variation"
                    => detected[k].confidence = Frac(95, 100)
              /\ detected[k].detection_method = "keyword"
                    => detected[k].confidence = Frac(60, 100)
              /\ detected[k].detection_method = "fuzzy_match"
                    => /\ Lt(Frac(60, 100), detected[k].confidence)
                       /\ Lt(detected[k].confidence, Frac(95, 100))

(* ------- analysis of one business (comprehensive_business_analysis.py) --- *)
Https == <<"h","t","t","p","s">>
\* the supplier's site, over https and over http
SiteHttps == <<"h","t","t","p","s",":","/","/","a","c","m","e",".","c","o","m">>
SiteHttp == <<"h","t","t","p",":","/","/","a","c","m","e",".","c","o","m">>
\* the addresses and numbers of the discovery record and of the page; "" is none
CsvEmails == {"", "info@acme.com"}
CsvPhones == {"", "555-9999"}
PageEmails == {"", "sales@acme.com"}
PagePhones == {"", "555-1234"}

Businesses == [url : {SiteHttps, SiteHttp}, email : CsvEmails, phone : CsvPhones]

\* page.url after page.goto(url): the address asked for, or the https address
\* the site redirects to
PageUrls(url) == {url, SiteHttps}

\* the keys of the signals dictionary; the text flags do not depend on the URL
_extract_quality_signals(page_url, flags) ==
    [has_https |-> StartsWith(page_url, Https),
     has_awards |-> flags[1], mentions_quality |-> flags[2],
     mentions_compliance |-> flags[3], has_partnerships |-> flags[4]]

\* dict.get(key) as a truth value: a key the dictionary lacks gives None
Get(dict, key) == key \in DOMAIN dict /\ dict[key]

\* analyze_website(url), where it succeeds
analyze_website(url, page_url, email, phone, flags) ==
    [url |-> url, company_name |-> "Acme Steel", location |-> TRUE,
     certifications |-> 0,
     contact |-> [email |-> email, phone |-> phone],
     quality_signals |-> _extract_quality_signals(page_url, flags)]

\* the fields calculate_score reads of the analyzer's website_data
ScoreInput(wd) ==
    WebsiteData(wd.company_name, FALSE,
                <<wd.contact.email # "", wd.contact.phone # "">>,
                <<wd.location, FALSE>>, wd.certifications, <<FALSE, 0>>,
                <<Get(wd.quality_signals, "has_ssl"), FALSE, FALSE, FALSE>>,
                <<FALSE, FALSE>>)

\* Merge CSV contact info with website contact info
MergeContact(wd, b) ==
    [wd EXCEPT !.contact.email = IF @ = "" /\ b.email # "" THEN b.email ELSE @,
               !.contact.phone = IF @ = "" /\ b.phone # "" THEN b.phone ELSE @]

Pending(b) ==
    [website_url |-> b.url, csv_email |-> b.email, csv_phone |-> b.phone,
     analysis_status |-> "pending"]

\* Step 5 scores website_data, then the contact of the discovery record is
\* merged into the same dictionary, which analysis['website_data'] refers to
analyze_business(b, wd, mp, sd) ==
    [website_url |-> b.url, csv_email |-> b.email, csv_phone |-> b.phone,
     website_data |-> MergeContact(wd, b),
     marketplace_presence |-> mp,
     sentiment_data |-> sd,
     score_data |-> calculate_score(ScoreInput(wd), mp, sd),
     analysis_status |-> "completed"]

\* value[:n] if value else None: a column holds at most one value
Column(value) == IF value # "" THEN {value} ELSE {}
\* the contact columns and the score columns of the row
MappedRow(data) ==
    [website_url |-> data.website_url,
     email |-> Column(data.website_data.contact.email),
     phone |-> Column(data.website_data.contact.phone),
     star_rating |-> data.score_data.stars]

AnalyzeBusiness ==
    /\ entry = "analyze_business"
    /\ analysispc = "start"
    /\ \E page_url \in PageUrls(business.url), email \in PageEmails, phone \in PagePhones,
          flags \in {<<FALSE, FALSE, FALSE, FALSE>>, <<TRUE, TRUE, TRUE, TRUE>>},
          mp \in Marketplaces, sd \in Sentiments :
         analysis' = analyze_business(business,
                        analyze_website(business.url, page_url, email, phone, flags),
                        mp, sd)
    /\ analysispc' = "completed"
    /\ UNCHANGED <<business, saved_data, phoneVars, certVars, scoreVars, contactVars,
                   marketVars, dbVars, detectVars, pipelineVars>>

\* website_data.get('analysis_failed'), or an exception of one of the steps
AnalysisFails ==
    /\ entry = "analyze_business"
    /\ analysispc = "start"
    /\ analysis' = [Pending(business) EXCEPT !.analysis_status = "failed"]
    /\ analysispc' = "failed"
    /\ UNCHANGED <<business, saved_data, phoneVars, certVars, scoreVars, contactVars,
                   marketVars, dbVars, detectVars, pipelineVars>>

\* run_analysis: a completed analysis is handed to save_business_analysis
SaveBusinessAnalysis ==
    /\ entry = "analyze_business"
    /\ analysispc = "completed"
    /\ saved_data' = MappedRow(analysis)
    /\ analysispc' = "saved"
    /\ UNCHANGED <<business, analysis, phoneVars, certVars, scoreVars, contactVars,
                   marketVars, dbVars, detectVars, pipelineVars>>

\* save_business_analysis catches an exception of the database and returns False
SaveBusinessFails ==
    /\ entry = "analyze_business"
    /\ analysispc = "completed"
    /\ analysispc' = "save_failed"
    /\ UNCHANGED <<business, analysis, saved_data, phoneVars, certVars, scoreVars,
                   contactVars, marketVars, dbVars, detectVars, pipelineVars>>

InitAnalysis ==
    /\ PipelineIdle
    /\ PhoneIdle
    /\ CertIdle
    /\ ScoreIdle
    /\ ContactIdle
    /\ MarketIdle
    /\ DbIdle
    /\ DetectIdle
    /\ entry = "analyze_business"
    /\ business \in Businesses
    /\ analysis = << >>
    /\ saved_data = << >>
    /\ analysispc = "start"

NextAnalysis ==
    \/ AnalyzeBusiness
    \/ AnalysisFails
    \/ SaveBusinessAnalysis
    \/ SaveBusinessFails

SpecAnalysis == InitAnalysis /\ [][NextAnalysis]_vars

Completed == analysis # << >> /\ analysis.analysis_status = "completed"
RiskPoints == analysis.score_data.details.risk_profile.points

\* C27: the "No SSL certificate" deduction is made only when the site is not
\* served over HTTPS: a supplier whose analysed page URL starts with https,
\* with a non-negative sentiment and a marketplace listing, gets the full 4
\* points of the risk category.
C27_FullRiskOverHttps ==
    (/\ Completed
     /\ analysis.website_data.quality_signals.has_https
     /\ SentimentScore(analysis.sentiment_data) >= 50
     /\ Verified(analysis.marketplace_presence))
    => RiskPoints = Pts(4)

Saved == saved_data # << >>
ContactPoints == analysis.score_data.details.company_info.points
\* the points of the company & contact category for what the row carries
PointsFor(row) ==
    Pts(1) + (IF row.email # {} THEN Pts(1) ELSE 0)
           + (IF row.phone # {} THEN Pts(1) ELSE 0) + Pts(1)

\* C29: the score is computed from the contact data that is persisted: when
\* the record handed to save_business_analysis carries an email or a phone,
\* one carried over from the discovery record included, the company & contact
\* category includes the point of that email or phone.
C29_ScoreFromPersistedContact ==
    Saved => ContactPoints = PointsFor(saved_data)

(* ------------------- membership of the results (utils.py) --------------- *)
\* the urls of the list search_suppliers / search_suppliers_v2 returns
ResultUrls == {result_list[k].url : k \in 1..Len(result_list)}

\* C28: every url in the list returned by search_suppliers or
\* search_suppliers_v2 is a member of the filtered candidate set that was
\* submitted to validation, whatever text the oracle answers with.
C28_ResultsAmongCandidates ==
    entry \in {"search_suppliers", "search_suppliers_v2"} => ResultUrls \subseteq Range(links)

(* ------------- what merging reports (certification_detector.py) --------- *)
\* the confidences detected for certification id, in the order detected
ConfidencesOf(dets, id) == SelectSeq([k \in 1..Len(dets) |-> dets[k]], LAMBDA d : d.id = id)
Reverse(seq) == [k \in 1..Len(seq) |-> seq[Len(seq) + 1 - k]]
\* the first detection's confidence, boosted once for every later one
RECURSIVE BoostedTimes(_, _)
BoostedTimes(c, n) == IF n = 0 THEN c ELSE BoostedTimes(Boosted(c), n - 1)
MergedConfidence(found) == BoostedTimes(found[1].confidence, Len(found) - 1)

\* C30: _merge_detections only boosts: the merged confidence of a
\* certification is at least the highest of the confidences detected for it,
\* and does not depend on the order in which they were detected.
C30_MergedAtLeastMax ==
    cert_result # << >> =>
        \A k \in 1..Len(cert_result) :
            LET found == ConfidencesOf(detections, cert_result[k].id)
            IN  /\ \A j \in 1..Len(found) :
                      Leq(found[j].confidence, cert_result[k].confidence)
                /\ cert_result[k].confidence = MergedConfidence(Reverse(found))

=============================================================================
